---- MODULE Spec2Model ----
(***************************************************************************)
(* Analysis orchestration pipeline (src/core/pipeline.py), the RSSHub news  *)
(* service (src/services/news_service.py), the structured finance service  *)
(* (src/services/finance_service.py), the sentiment service                *)
(* (src/services/sentiment_service.py), the bot's webhook handler          *)
(* (bot/handler.py) and its WeCom adapter (bot/platforms/wecom.py).        *)
(*                                                                         *)
(* Seventeen specifications share this module; each one moves only its own *)
(* variables and leaves the others at their initial value:                 *)
(*   SpecRoute    sequential _fetch_news_items calls on one RssNewsService *)
(*   SpecRace     worker threads inside _record_route_failure /            *)
(*                _record_route_success on the shared instance             *)
(*   SpecRefresh  sequential fetch_and_save_stock_data calls               *)
(*   Spec         StockAnalysisPipeline.run with its thread pool           *)
(*   SpecBatch    the same run on lists around the prefetch threshold      *)
(*   SpecNews     ranking and selection of one fetched list of news items  *)
(*   SpecIntel    StockAnalysisPipeline._build_intel_context               *)
(*   SpecPush     StockAnalysisPipeline._send_notifications and the tail   *)
(*                of run that calls it                                     *)
(*   SpecTask     one symbol's process_single_stock, call by call          *)
(*   SpecQuarter  FinanceIntelService._recent_quarter_dates                *)
(*   SpecFinance  FinanceIntelService._fetch_latest_by_dates, three times  *)
(*   SpecSentiment XueqiuSentimentService._fetch_sentiment                 *)
(*   SpecLive     Spec with weak fairness of every step of run and of the  *)
(*                pool threads                                             *)
(*   SpecProgress the progress messages of one run                         *)
(*   SpecJina     RssNewsService._enhance_with_jina on the selected items  *)
(*   SpecBlocks   the text blocks of the three intel services, fed to      *)
(*                _build_intel_context                                     *)
(*   SpecWebhook  handler.handle_webhook calls through the WeCom adapter   *)
(***************************************************************************)
EXTENDS Integers, Sequences, FiniteSets, TLC

VARIABLES
    \* ---- RssNewsService (SpecRoute, SpecRace) ----
    route_fail_counts,      \* self._route_fail_counts : dict route -> int
    route_last_fail_ts,     \* self._route_last_fail_ts: dict route -> time
    now,                    \* time.time(), in seconds
    fetch_log,              \* what the latest _fetch_news_items did, per route
    route_idx,              \* the template the loop of _fetch_news_items visits next
    streak,                 \* ghost: failed fetches of a route since its last success
    last_fail_at,           \* ghost: time the latest failed fetch of a route ended
    thr,                    \* SpecRace: the worker threads, one record each
    race0,                  \* SpecRace: _route_fail_counts when the threads started
    \* ---- persistence and data refresh (SpecRefresh, Spec) ----
    db_has_today,           \* codes for which self.db.has_today_data(code, today)
    today,                  \* date.today(), as a day number
    refresh_log,            \* SpecRefresh: the fetch_and_save_stock_data calls made
    \* ---- StockAnalysisPipeline.run (Spec) ----
    cfg,                    \* the pipeline's and the run's arguments and configuration
    stock_codes,            \* the resolved symbol list of the run
    run_pc,                 \* where run() is
    task,                   \* one record per submitted future (per list position)
    worker,                 \* per pool thread: the task it executes, 0 when idle
    results,                \* run()'s results list (list positions of the symbols)
    uuid_issued,            \* how many uuid4 values the process has drawn
    prefetch_calls,         \* calls of prefetch_realtime_quotes
    prefetch_arg,           \* the symbol list the latest prefetch was called with
    progress_msgs,          \* calls of _notify_progress
    delays,                 \* calls of time.sleep(analysis_delay) in run()
    success_count,          \* the reported counts, -1 until run() computes them
    fail_count,
    agg,                    \* what _send_notifications did with the dashboard
    \* ---- RssNewsService ranking (SpecNews) ----
    news_in,                \* the arguments and configuration of build_news_context
    news_now,               \* datetime.now(timezone.utc), in hours
    news_log,               \* what each build_news_context call computed
    \* ---- intel aggregation (SpecIntel) ----
    intel_in,               \* what the sources of _build_intel_context do
    intel_log,              \* what each _build_intel_context call did
    \* ---- aggregate report delivery (SpecPush) ----
    push_in,                \* the arguments of _send_notifications and what the notifier does
    push_log,               \* what the _send_notifications call did
    \* ---- one symbol's task, call by call (SpecTask) ----
    sym_in,                 \* the arguments of process_single_stock, the stored data
    sym,                    \* where the task is, its locals and the calls it made
    \* ---- FinanceIntelService (SpecQuarter, SpecFinance) ----
    fin_in,                 \* the date, the configuration and what akshare returns
    fin_log,                \* what the calls of the service returned and queried
    \* ---- XueqiuSentimentService (SpecSentiment) ----
    sent_in,                \* the configuration and what the network answers
    sent_log,               \* the result of _fetch_sentiment and the requests it issued
    \* ---- StockAnalysisPipeline._notify_progress (SpecProgress) ----
    prog_in,                \* the configuration of the run and of its progress messages
    prog,                   \* where run() is, its results and counts, the messages it sent
    \* ---- RssNewsService._enhance_with_jina (SpecJina) ----
    jina_in,                \* the ranked items (the objects of the list) and the configuration
    jina_log,               \* the items after the backfill and the reader calls made
    \* ---- the intel blocks of the three services (SpecBlocks) ----
    blk_in,                 \* the configuration of the services and what they find
    blk_log,                \* the blocks built and what _build_intel_context did with them
    \* ---- bot webhook (SpecWebhook) ----
    hook_in,                \* the configuration of the bot and of the WeCom adapter
    hook_now,               \* the clock: the position of time.time() in HookTimes
    _recent_message_cache,  \* handler._recent_message_cache: fingerprint -> time
    hook_log                \* per handle_webhook call: the request, the response, the dispatch

vars == <<route_fail_counts, route_last_fail_ts, now, fetch_log, route_idx,
          streak, last_fail_at, thr, race0, db_has_today, today, refresh_log,
          cfg, stock_codes, run_pc, task, worker, results, uuid_issued,
          prefetch_calls, prefetch_arg, progress_msgs, delays, success_count, fail_count,
          agg, news_in, news_now, news_log, intel_in, intel_log,
          push_in, push_log, sym_in, sym, fin_in, fin_log,
          sent_in, sent_log, prog_in, prog, jina_in, jina_log,
         blk_in, blk_log, hook_in, hook_now, _recent_message_cache, hook_log>>

newsVars == <<news_in, news_now, news_log>>

intelVars == <<intel_in, intel_log>>

pushVars == <<push_in, push_log>>

symVars == <<sym_in, sym>>

finVars == <<fin_in, fin_log>>

sentVars == <<sent_in, sent_log>>

progVars == <<prog_in, prog>>

jinaVars == <<jina_in, jina_log>>

blkVars == <<blk_in, blk_log>>

hookVars == <<hook_in, hook_now, _recent_message_cache, hook_log>>

restVars == <<progVars, jinaVars, blkVars, hookVars>>

moreVars == <<pushVars, symVars, finVars, sentVars, restVars>>

enrichVars == <<newsVars, intelVars, moreVars>>

runVars == <<cfg, stock_codes, run_pc, task, worker, results, uuid_issued,
             prefetch_calls, prefetch_arg, progress_msgs, delays, success_count,
             fail_count, agg>>

raceVars == <<thr, race0>>

refreshVars == <<db_has_today, today, refresh_log>>

routeVars == <<route_fail_counts, route_last_fail_ts, now, fetch_log, route_idx,
               streak, last_fail_at>>

\* the variables of the specifications defined before SpecProgress
baseVars == <<pushVars, symVars, finVars, sentVars, newsVars, intelVars, routeVars,
              raceVars, refreshVars, runVars>>

-----------------------------------------------------------------------------
(* Python dict helpers                                                     *)

EmptyDict == [k \in {} |-> 0]

DictGet(d, k, default) == IF k \in DOMAIN d THEN d[k] ELSE default

DictSet(d, k, v) == [x \in (DOMAIN d) \cup {k} |-> IF x = k THEN v ELSE d[x]]

DictPop(d, k) == [x \in (DOMAIN d) \ {k} |-> d[x]]

-----------------------------------------------------------------------------
(* RssNewsService: route health (circuit breaker)                          *)

route_fail_threshold == 3

route_cooldown_seconds == 15 * 60

\* the number of tries of _request_with_retry: range(3)
retry_attempts == 3

\* the resolved route templates of the service instance (two templates)
route_templates == <<"route_a", "route_b">>

Routes == {route_templates[i] : i \in DOMAIN route_templates}

\* the clock is not advanced past MaxTime
MaxTime == 1800

\* how far the clock moves between two fetches (one Tick), and how long the
\* request phase of one route (tries and back-off sleeps) may take
ClockStep == route_cooldown_seconds \div 2

RequestDurations == {0, ClockStep}

_should_skip_route_le(counts, ts, route_tpl, t) ==
    LET failures == DictGet(counts, route_tpl, 0)
    IN  IF failures < route_fail_threshold
        THEN FALSE
        ELSE (t - DictGet(ts, route_tpl, 0)) <= route_cooldown_seconds

_should_skip_route_inverted(counts, ts, route_tpl, t) ==
    LET failures == DictGet(counts, route_tpl, 0)
    IN  IF failures < route_fail_threshold
        THEN FALSE
        ELSE (t - DictGet(ts, route_tpl, 0)) > route_cooldown_seconds

_should_skip_route(counts, ts, route_tpl, t) ==
    LET failures == DictGet(counts, route_tpl, 0)
    IN  IF failures < route_fail_threshold
        THEN FALSE
        ELSE (t - DictGet(ts, route_tpl, 0)) < route_cooldown_seconds

\* health = [counts, ts]; t is the value time.time() returns in the call
_record_route_failure(health, route_tpl, t) ==
    [counts |-> DictSet(health.counts, route_tpl,
                        DictGet(health.counts, route_tpl, 0) + 1),
     ts     |-> DictSet(health.ts, route_tpl, t)]

_record_route_success_counts_only(health, route_tpl) ==
    [health EXCEPT !.counts = DictPop(health.counts, route_tpl)]

_record_route_success_keep(health, route_tpl) == health

_record_route_success_decrement(health, route_tpl) ==
    IF DictGet(health.counts, route_tpl, 0) > 1
    THEN [health EXCEPT !.counts = DictSet(health.counts, route_tpl,
                                            health.counts[route_tpl] - 1)]
    ELSE [counts |-> DictPop(health.counts, route_tpl),
          ts     |-> DictPop(health.ts, route_tpl)]

_record_route_success(health, route_tpl) ==
    [counts |-> DictPop(health.counts, route_tpl),
     ts     |-> DictPop(health.ts, route_tpl)]

\* One try of requests.get raises for each of the first `raises` tries the
\* network lets down (raises = retry_attempts: every try raises).
\* Returns how many tries were made and whether the last error was re-raised.
RECURSIVE RetryLoop(_, _)
RetryLoop(attempt, raises) ==
    IF attempt >= retry_attempts
    THEN [attempts |-> attempt, raised |-> TRUE]
    ELSE IF attempt < raises
         THEN RetryLoop(attempt + 1, raises)
         ELSE [attempts |-> attempt + 1, raised |-> FALSE]

_request_with_retry_once(raises) ==
    [attempts |-> 1, raised |-> raises >= 1]

_request_with_retry(raises) == RetryLoop(0, raises)

\* What the upstream does to one route during one fetch.
\* resp is what the first try that does not raise returns: an HTTP 200 feed
\* with items, an HTTP 200 feed without items, an HTTP 200 body that is no
\* XML (ET.fromstring raises), or another HTTP status.
Responses == {"items", "empty", "malformed", "non200"}

RouteInputs ==
    {in \in [raises : 0..retry_attempts, resp : Responses, dt : RequestDurations] :
        \* inputs that differ only in a response nobody receives are one input
        in.raises = retry_attempts => in.resp = "items"}

\* ground truth of one attempted fetch of a route: a feed with items arrived
FetchSucceeds(in) == in.raises < retry_attempts /\ in.resp = "items"

\* ghost: the breaker state of a route at time t, from the ground truth
Phase(stk, lastfail, t) ==
    IF stk < route_fail_threshold THEN "closed"
    ELSE IF t - lastfail < route_cooldown_seconds THEN "open"
    ELSE "half_open"

RouteOutcomeEmptyFeedOk(raised, resp) ==
    IF raised \/ resp = "non200" \/ resp = "malformed" THEN "failure" ELSE "success"

\* _fetch_news_items, lines 109-126: what one attempted route records.  The
\* request raised after its last try or _parse_feed raised (the except
\* branch), the status is not 200, the feed has no item: a failure; a feed
\* with items: a success
RouteOutcome(raised, resp) ==
    CASE raised -> "failure"
      [] resp = "non200" -> "failure"
      [] resp = "malformed" -> "failure"
      [] resp = "empty" -> "failure"
      [] OTHER -> "success"

\* The body of the for-loop of _fetch_news_items for one route template.
\* st = [health, t, log, streak, last_fail_at]
ProcessRoute(st, route_tpl, in) ==
    LET counts == st.health.counts
        phase  == Phase(st.streak[route_tpl], st.last_fail_at[route_tpl], st.t)
        entry  == [route |-> route_tpl, phase |-> phase,
                   cnt_before |-> DictGet(counts, route_tpl, 0),
                   skipped |-> FALSE, attempts |-> 0, raises |-> 0,
                   truth |-> FALSE, recorded |-> "none"]
    IN  IF _should_skip_route(counts, st.health.ts, route_tpl, st.t)
        THEN [st EXCEPT !.log = Append(@, [entry EXCEPT !.skipped = TRUE])]
        ELSE
          LET req == _request_with_retry(in.raises)
              t2  == st.t + in.dt
              ok  == RouteOutcome(req.raised, in.resp) = "success"
              h2  == IF ok THEN _record_route_success(st.health, route_tpl)
                     ELSE _record_route_failure(st.health, route_tpl, t2)
          IN  [health |-> h2,
               t      |-> t2,
               log    |-> Append(st.log,
                            [entry EXCEPT !.attempts = req.attempts,
                                          !.raises = in.raises,
                                          !.truth = FetchSucceeds(in),
                                          !.recorded = IF ok THEN "success"
                                                       ELSE "failure"]),
               streak |-> [st.streak EXCEPT ![route_tpl] =
                            IF FetchSucceeds(in) THEN 0 ELSE @ + 1],
               last_fail_at |-> [st.last_fail_at EXCEPT ![route_tpl] =
                            IF FetchSucceeds(in) THEN 0 ELSE t2]]

NoInput == [raises |-> 0, resp |-> "items", dt |-> 0]

\* RssNewsService._fetch_news_items, one iteration of `for route_tpl in
\* route_templates`: route_idx is the template the loop visits next; after the
\* last one the call returns and the next call starts again at the first.
FetchRoute(in) ==
    LET first == route_idx = 1
        st0 == [health |-> [counts |-> route_fail_counts, ts |-> route_last_fail_ts],
                t |-> now, log |-> IF first THEN <<>> ELSE fetch_log,
                streak |-> streak, last_fail_at |-> last_fail_at]
        st  == ProcessRoute(st0, route_templates[route_idx], in)
    IN  /\ st.t <= MaxTime
        \* a skipped template consumes no input
        /\ st.log[Len(st.log)].skipped => in = NoInput
        /\ route_fail_counts' = st.health.counts
        /\ route_last_fail_ts' = st.health.ts
        /\ now' = st.t
        /\ fetch_log' = st.log
        /\ streak' = st.streak
        /\ last_fail_at' = st.last_fail_at
        /\ route_idx' = IF route_idx = Len(route_templates) THEN 1 ELSE route_idx + 1
        /\ UNCHANGED <<raceVars, refreshVars, runVars, enrichVars>>

\* time passes (between two fetches, or between two templates of one fetch)
Tick ==
    /\ now + ClockStep <= MaxTime
    /\ now' = now + ClockStep
    /\ UNCHANGED <<route_fail_counts, route_last_fail_ts, fetch_log, streak,
                   last_fail_at, route_idx, raceVars, refreshVars, runVars, enrichVars>>

RouteInit ==
    /\ route_fail_counts = EmptyDict
    /\ route_last_fail_ts = EmptyDict
    /\ now = 0
    /\ fetch_log = <<>>
    /\ streak = [r \in Routes |-> 0]
    /\ last_fail_at = [r \in Routes |-> 0]
    /\ route_idx = 1

RaceIdle == thr = <<>> /\ race0 = EmptyDict

RefreshIdle == db_has_today = {} /\ today = 1 /\ refresh_log = <<>>

RunIdle ==
    /\ cfg = <<>> /\ stock_codes = <<>> /\ run_pc = "idle" /\ task = <<>>
    /\ worker = <<>> /\ results = <<>> /\ uuid_issued = 0 /\ prefetch_calls = 0
    /\ prefetch_arg = <<>> /\ progress_msgs = 0 /\ delays = 0
    /\ success_count = -1 /\ fail_count = -1 /\ agg = "none"

NewsIdle == news_in = <<>> /\ news_now = 0 /\ news_log = <<>>

IntelIdle == intel_in = <<>> /\ intel_log = <<>>

PushIdle == push_in = <<>> /\ push_log = <<>>

SymIdle == sym_in = <<>> /\ sym = <<>>

FinIdle == fin_in = <<>> /\ fin_log = <<>>

SentIdle == sent_in = <<>> /\ sent_log = <<>>

ProgIdle == prog_in = <<>> /\ prog = <<>>

JinaIdle == jina_in = <<>> /\ jina_log = <<>>

BlkIdle == blk_in = <<>> /\ blk_log = <<>>

HookIdle == hook_in = <<>> /\ hook_now = 1 /\ _recent_message_cache = <<>> /\ hook_log = <<>>

RestIdle == ProgIdle /\ JinaIdle /\ BlkIdle /\ HookIdle

BaseIdle ==
    /\ PushIdle /\ SymIdle /\ FinIdle /\ SentIdle /\ NewsIdle /\ IntelIdle /\ RouteInit
    /\ RaceIdle /\ RefreshIdle /\ RunIdle

MoreIdle == PushIdle /\ SymIdle /\ FinIdle /\ SentIdle /\ RestIdle

EnrichIdle == NewsIdle /\ IntelIdle /\ MoreIdle

InitRoute == RouteInit /\ RaceIdle /\ RefreshIdle /\ RunIdle /\ EnrichIdle

NextRoute ==
    \/ \E in \in RouteInputs : FetchRoute(in)
    \/ Tick

SpecRoute == InitRoute /\ [][NextRoute]_vars

-----------------------------------------------------------------------------
(* The route table under the pipeline's worker threads.  The pipeline owns *)
(* one RssNewsService (pipeline.py:93) and every pool worker reaches it    *)
(* through analyze_stock -> _build_intel_context -> build_news_context, so *)
(* _record_route_failure / _record_route_success run concurrently on the   *)
(* same dicts with no lock.  Each dict operation is atomic in itself; a    *)
(* thread switch can fall between any two of them.                         *)

\* worker threads inside a record call at the same time
RaceThreads == 2

Threads == 1..RaceThreads

\* _record_route_failure, line 175, right-hand side:
\*     self._route_fail_counts.get(route_tpl, 0)
RecordFailureGet(t) ==
    /\ thr[t].pc = "call" /\ thr[t].op = "failure"
    /\ thr' = [thr EXCEPT ![t].pc = "set_count",
                          ![t].tmp = DictGet(route_fail_counts, thr[t].route, 0)]
    /\ UNCHANGED <<routeVars, race0, refreshVars, runVars, enrichVars>>

\* _record_route_failure, line 175, the store:
\*     self._route_fail_counts[route_tpl] = <value read> + 1
RecordFailureSetCount(t) ==
    /\ thr[t].pc = "set_count"
    /\ route_fail_counts' = DictSet(route_fail_counts, thr[t].route, thr[t].tmp + 1)
    /\ thr' = [thr EXCEPT ![t].pc = "set_ts"]
    /\ UNCHANGED <<route_last_fail_ts, now, fetch_log, route_idx, streak,
                   last_fail_at, race0, refreshVars, runVars, enrichVars>>

\* _record_route_failure, line 176
RecordFailureSetTs(t) ==
    /\ thr[t].pc = "set_ts"
    /\ route_last_fail_ts' = DictSet(route_last_fail_ts, thr[t].route, now)
    /\ thr' = [thr EXCEPT ![t].pc = "done"]
    /\ UNCHANGED <<route_fail_counts, now, fetch_log, route_idx, streak,
                   last_fail_at, race0, refreshVars, runVars, enrichVars>>

\* _record_route_success, line 179
RecordSuccessPopCount(t) ==
    /\ thr[t].pc = "call" /\ thr[t].op = "success"
    /\ route_fail_counts' = DictPop(route_fail_counts, thr[t].route)
    /\ thr' = [thr EXCEPT ![t].pc = "pop_ts"]
    /\ UNCHANGED <<route_last_fail_ts, now, fetch_log, route_idx, streak,
                   last_fail_at, race0, refreshVars, runVars, enrichVars>>

\* _record_route_success, line 180
RecordSuccessPopTs(t) ==
    /\ thr[t].pc = "pop_ts"
    /\ route_last_fail_ts' = DictPop(route_last_fail_ts, thr[t].route)
    /\ thr' = [thr EXCEPT ![t].pc = "done"]
    /\ UNCHANGED <<route_fail_counts, now, fetch_log, route_idx, streak,
                   last_fail_at, race0, refreshVars, runVars, enrichVars>>

\* the table states a sequential history leaves behind: a route is absent
\* from both dicts or present in both with a count of at least 1
RaceTables ==
    {c \in UNION {[R -> 1..(route_fail_threshold - 1)] : R \in SUBSET Routes} : TRUE}

InitRace ==
    /\ route_fail_counts \in RaceTables
    /\ route_last_fail_ts = [r \in DOMAIN route_fail_counts |-> 0]
    /\ race0 = route_fail_counts
    /\ now = 0
    /\ fetch_log = <<>>
    /\ route_idx = 1
    /\ streak = [r \in Routes |-> 0]
    /\ last_fail_at = [r \in Routes |-> 0]
    /\ thr \in [Threads -> [pc : {"call"}, op : {"failure", "success"},
                            route : Routes, tmp : {0}]]
    /\ RefreshIdle /\ RunIdle /\ EnrichIdle

NextRace ==
    \E t \in Threads :
        \/ RecordFailureGet(t)
        \/ RecordFailureSetCount(t)
        \/ RecordFailureSetTs(t)
        \/ RecordSuccessPopCount(t)
        \/ RecordSuccessPopTs(t)

SpecRace == InitRace /\ [][NextRace]_vars

RaceDone == \A t \in Threads : thr[t].pc = "done"

FailureCalls(r) == {t \in Threads : thr[t].op = "failure" /\ thr[t].route = r}

SuccessCalls(r) == {t \in Threads : thr[t].op = "success" /\ thr[t].route = r}

\* C9: after k concurrent _record_route_failure calls on a route, with no
\* _record_route_success on it, the stored count is the previous count plus k
\* (no update is lost).
C9_NoLostUpdate ==
    RaceDone =>
        \A r \in Routes :
            SuccessCalls(r) = {} =>
                DictGet(route_fail_counts, r, 0)
                    = DictGet(race0, r, 0) + Cardinality(FailureCalls(r))

-----------------------------------------------------------------------------
(* StockAnalysisPipeline.fetch_and_save_stock_data: the idempotent refresh  *)

\* the watch-list symbols the model draws stock lists from
Symbols == <<"600519", "000001", "300750", "002594", "601318">>

\* self.db.has_today_data(code, today)
has_today_data(db, code) == code \in db

\* What self.fetcher_manager.get_daily_data and self.db.save_daily_data do in
\* one call: rows that include today's bar, rows that end before today (the
\* market has not closed, or today is no trading day), an empty frame, an
\* exception of the fetcher, or rows whose save raises.
Upstreams == {"rows_today", "rows_old", "empty", "raise", "save_raise"}

\* self.db.save_daily_data(df, code, source_name): today's row exists
\* afterwards iff it existed before or the frame holds it
save_daily_data(db, code, up) == IF up = "rows_today" THEN db \cup {code} ELSE db

fetch_and_save_stock_data_no_check(code, force_refresh, up, db) ==
    IF up \in {"raise", "empty", "save_raise"}
    THEN [ok |-> FALSE, fetched |-> TRUE, db |-> db]
    ELSE [ok |-> TRUE, fetched |-> TRUE, db |-> save_daily_data(db, code, up)]

\* returns the success flag, whether get_daily_data was called, and the db
fetch_and_save_stock_data(code, force_refresh, up, db) ==
    IF ~force_refresh /\ has_today_data(db, code)
    THEN [ok |-> TRUE, fetched |-> FALSE, db |-> db]
    ELSE IF up = "raise"
         THEN [ok |-> FALSE, fetched |-> TRUE, db |-> db]
    ELSE IF up = "empty"
         THEN [ok |-> FALSE, fetched |-> TRUE, db |-> db]
    ELSE IF up = "save_raise"
         THEN [ok |-> FALSE, fetched |-> TRUE, db |-> db]
    ELSE [ok |-> TRUE, fetched |-> TRUE, db |-> save_daily_data(db, code, up)]

\* how many calls and days SpecRefresh follows
MaxRefreshCalls == 3

MaxDays == 2

RefreshCodes == {Symbols[1], Symbols[2]}

Refresh(code, force_refresh, up) ==
    LET r == fetch_and_save_stock_data(code, force_refresh, up, db_has_today)
    IN  /\ Len(refresh_log) < MaxRefreshCalls
        \* a call that does not fetch consumes no upstream behaviour
        /\ ~r.fetched => up = "empty"
        /\ db_has_today' = r.db
        /\ refresh_log' = Append(refresh_log,
                                 [code |-> code, day |-> today,
                                  force |-> force_refresh,
                                  had_today |-> has_today_data(db_has_today, code),
                                  up |-> up, fetched |-> r.fetched, ok |-> r.ok])
        /\ UNCHANGED <<today, routeVars, raceVars, runVars, enrichVars>>

\* midnight: date.today() moves on and no code has data for the new day yet
NextDay ==
    /\ today < MaxDays
    /\ today' = today + 1
    /\ db_has_today' = {}
    /\ UNCHANGED <<refresh_log, routeVars, raceVars, runVars, enrichVars>>

InitRefresh ==
    /\ db_has_today \in SUBSET RefreshCodes
    /\ today = 1
    /\ refresh_log = <<>>
    /\ RouteInit /\ RaceIdle /\ RunIdle /\ EnrichIdle

NextRefresh ==
    \/ \E code \in RefreshCodes, force_refresh \in BOOLEAN, up \in Upstreams :
          Refresh(code, force_refresh, up)
    \/ NextDay

SpecRefresh == InitRefresh /\ [][NextRefresh]_vars

\* j is the next call for the code of call i, on the same day
NextCallOf(i, j) ==
    /\ i < j
    /\ refresh_log[i].code = refresh_log[j].code
    /\ refresh_log[i].day = refresh_log[j].day
    /\ \A k \in (i + 1)..(j - 1) : refresh_log[k].code # refresh_log[i].code

\* today's data of the call's code is stored when the call returns
LeftToday(e) == e.had_today \/ (e.fetched /\ e.up = "rows_today")

Fetches(e) == IF e.fetched THEN 1 ELSE 0

\* C5 as stated: two calls for a code on the same day with force_refresh=False
\* make at most one network fetch, and the second makes none and returns
\* success.
C5_TwiceFetchesOnce ==
    \A i, j \in DOMAIN refresh_log :
        (NextCallOf(i, j) /\ ~refresh_log[i].force /\ ~refresh_log[j].force) =>
            /\ Fetches(refresh_log[i]) + Fetches(refresh_log[j]) <= 1
            /\ ~refresh_log[j].fetched
            /\ refresh_log[j].ok

\* C5 amended: a call with force_refresh=False fetches iff today's data of the
\* code is not stored yet; so of two such calls on a day the second makes no
\* fetch and returns success, and the two make at most one fetch, when the
\* first left today's data stored, and the second fetches again when it did
\* not (empty or failed fetch, failed save, or rows that end before today).
C5_RefreshIdempotentOnceStored ==
    /\ \A j \in DOMAIN refresh_log :
         ~refresh_log[j].force =>
            /\ refresh_log[j].had_today => (~refresh_log[j].fetched /\ refresh_log[j].ok)
            /\ ~refresh_log[j].had_today => refresh_log[j].fetched
    /\ \A i, j \in DOMAIN refresh_log :
         (NextCallOf(i, j) /\ ~refresh_log[i].force /\ ~refresh_log[j].force) =>
            /\ LeftToday(refresh_log[i]) =>
                 /\ ~refresh_log[j].fetched /\ refresh_log[j].ok
                 /\ Fetches(refresh_log[i]) + Fetches(refresh_log[j]) <= 1
            /\ ~LeftToday(refresh_log[i]) => refresh_log[j].fetched

\* the first call fetched and stored today's rows, the second skipped the fetch
C5_Witness ==
    \E i, j \in DOMAIN refresh_log :
        /\ NextCallOf(i, j) /\ ~refresh_log[i].force /\ ~refresh_log[j].force
        /\ refresh_log[i].fetched /\ refresh_log[i].up = "rows_today"
        /\ ~refresh_log[j].fetched /\ refresh_log[j].ok

-----------------------------------------------------------------------------
(* StockAnalysisPipeline.run: the thread pool and the symbol tasks          *)

\* the longest symbol list and the largest pool the model follows
MaxSymbols == 2

MaxWorkers == 2

\* run() prefetches realtime quotes for a list of this many symbols or more
prefetch_min_symbols == 5

NoId == -1

\* uuid.uuid4().hex: a value no earlier call of the process returned; the
\* values are numbered in the order they are drawn
Uuid4(issued) == issued + 1

per_stock_query_id_batch(batch_query_id, issued) == batch_query_id

\* analyze_stock, line 277: the id the history record is saved under
per_stock_query_id(batch_query_id, issued) == Uuid4(issued)

\* ThreadPoolExecutor(max_workers=self.max_workers): the pool's threads
PoolWorkersPerTask(max_workers) == 1..MaxSymbols

PoolWorkers(max_workers) == 1..max_workers

\* What the collaborators do during one symbol's task:
\*   refresh   get_daily_data / save_daily_data (see Upstreams)
\*   analysis  "result": analyzer.analyze returns an AnalysisResult;
\*             "none": it returns None; "raise": enrichment-independent code
\*             of analyze_stock, the intel step or the analyzer raises
\*   save      _build_context_snapshot + save_analysis_history: "ok" | "raise"
\*   notify    "sent" / "failed": notifier.send returns True / False;
\*             "raise": report generation or send raises;
\*             "unavailable": notifier.is_available() is False;
\*             "avail_raise": notifier.is_available() raises
TaskInputs ==
    [refresh  : {"rows_today", "rows_old", "empty", "raise"},
     analysis : {"result", "none", "raise"},
     save     : {"ok", "raise"},
     notify   : {"sent", "failed", "raise", "unavailable", "avail_raise"}]

analyze_stock_unguarded_save(in, batch_query_id, issued) ==
    IF in.analysis = "raise"
    THEN [result |-> FALSE, hist_id |-> NoId, issued |-> issued]
    ELSE IF in.save = "ok"
    THEN [result |-> in.analysis = "result",
          hist_id |-> per_stock_query_id(batch_query_id, issued),
          issued |-> issued + 1]
    ELSE [result |-> in.analysis = "result", hist_id |-> NoId, issued |-> issued + 1]

analyze_stock_save_fatal(in, batch_query_id, issued) ==
    IF in.analysis = "result" /\ in.save = "ok"
    THEN [result |-> TRUE,
          hist_id |-> per_stock_query_id(batch_query_id, issued),
          issued |-> issued + 1]
    ELSE [result |-> FALSE, hist_id |-> NoId,
          issued |-> IF in.analysis = "result" THEN issued + 1 ELSE issued]

\* analyze_stock(code, report_type), as far as the result and the history go
analyze_stock(in, batch_query_id, issued) ==
    IF in.analysis = "raise"
    THEN [result |-> FALSE, hist_id |-> NoId, issued |-> issued]
    ELSE IF in.analysis = "none"
    THEN [result |-> FALSE, hist_id |-> NoId, issued |-> issued]
    ELSE IF in.save = "ok"
    THEN [result |-> TRUE,
          hist_id |-> per_stock_query_id(batch_query_id, issued),
          issued |-> issued + 1]
    ELSE [result |-> TRUE, hist_id |-> NoId, issued |-> issued + 1]

\* process_single_stock(code, skip_analysis, single_stock_notify, report_type)
\* returns: result (an AnalysisResult or None), the id its history record was
\* saved under, the outcome of the per-symbol push, and the database and uuid
\* state afterwards
process_single_stock(code, skip_analysis, single_stock_notify, in, db, batch_query_id, issued) ==
    LET f == fetch_and_save_stock_data(code, FALSE, in.refresh, db)
    IN  IF skip_analysis
        THEN [result |-> FALSE, hist_id |-> NoId, push |-> "none",
              db |-> f.db, issued |-> issued]
        ELSE
          LET a == analyze_stock(in, batch_query_id, issued)
              base == [result |-> a.result, hist_id |-> a.hist_id, push |-> "none",
                       db |-> f.db, issued |-> a.issued]
          IN  IF ~a.result \/ ~single_stock_notify THEN base
              ELSE IF in.notify = "avail_raise"
                   THEN [base EXCEPT !.result = FALSE]
              ELSE IF in.notify = "unavailable" THEN base
              ELSE IF in.notify = "sent" THEN [base EXCEPT !.push = "sent"]
              ELSE [base EXCEPT !.push = "failed"]

\* inputs that differ only in a call the task never makes are one input
InputUsed(in, skip_analysis, single_stock_notify, has_today) ==
    /\ has_today => in.refresh = "empty"
    /\ (skip_analysis \/ in.analysis # "result") => in.save = "ok"
    /\ skip_analysis => in.analysis = "none"
    /\ (skip_analysis \/ in.analysis # "result" \/ ~single_stock_notify)
          => in.notify = "sent"

NumSymbols == Len(stock_codes)

Tasks == 1..NumSymbols

\* a future: where it is, what process_single_stock returned and did (result,
\* hist_id, push), and what the analyzer and save_analysis_history did in it
\* and the notifier did in it (analysis, save, notify; "unused" while not
\* called)
NewTask ==
    [st |-> "new", result |-> FALSE, hist_id |-> NoId, push |-> "none",
     analysis |-> "unused", save |-> "unused", notify |-> "unused"]

Running == {i \in Tasks : task[i].st = "running"}

Queued == {i \in Tasks : task[i].st = "queued"}

Min(S) == CHOOSE x \in S : \A y \in S : x <= y

AfterResolveNoCheck(n) == IF n = 0 THEN "finalize" ELSE "submit"

\* run(), lines 655-657: an empty list ends the call, `return []`
AfterResolve(n) == IF n = 0 THEN "done" ELSE "submit"

ShouldPrefetchAlways(n) == n >= 1

\* run(), line 665: if len(stock_codes) >= 5
ShouldPrefetch(n) == n >= prefetch_min_symbols

\* run(), lines 648-683: resolve the list, return at once when it is empty,
\* prefetch for a large list (prefetch: prefetch_realtime_quotes returns,
\* "ok", or raises, and run() raises with it), send the start message
RunStart(prefetch) ==
    /\ run_pc = "start"
    /\ IF AfterResolve(NumSymbols) = "done"
       THEN /\ prefetch = "ok"
            /\ run_pc' = "done"
            /\ UNCHANGED <<prefetch_calls, prefetch_arg, progress_msgs>>
       ELSE IF ShouldPrefetch(NumSymbols)
       THEN /\ prefetch_calls' = prefetch_calls + 1
            /\ prefetch_arg' = stock_codes
            /\ IF prefetch = "raise"
               THEN run_pc' = "raised" /\ UNCHANGED progress_msgs
               ELSE /\ run_pc' = AfterResolve(NumSymbols)
                    /\ progress_msgs' = progress_msgs + 1
       ELSE /\ prefetch = "ok"
            /\ run_pc' = AfterResolve(NumSymbols)
            /\ progress_msgs' = progress_msgs + 1
            /\ UNCHANGED <<prefetch_calls, prefetch_arg>>
    /\ UNCHANGED <<cfg, stock_codes, task, worker, results, uuid_issued, delays,
                   success_count, fail_count, agg, routeVars, raceVars, refreshVars,
                   enrichVars>>

\* run(), lines 691-700: executor.submit for the next symbol of the list
Submit ==
    /\ run_pc = "submit"
    /\ LET i == Min({j \in Tasks : task[j].st = "new"})
       IN  /\ task' = [task EXCEPT ![i].st = "queued"]
           /\ run_pc' = IF i = NumSymbols THEN "collect" ELSE "submit"
    /\ UNCHANGED <<cfg, stock_codes, worker, results, uuid_issued, prefetch_calls,
                   prefetch_arg, progress_msgs, delays, success_count, fail_count, agg,
                   routeVars, raceVars, refreshVars, enrichVars>>

\* a pool thread takes the oldest work item of the queue (which of the idle
\* threads gets it makes no difference: the lowest-numbered one does)
StartTask(w) ==
    /\ worker[w] = 0
    /\ \A v \in DOMAIN worker : v < w => worker[v] # 0
    /\ Queued # {}
    /\ LET i == Min(Queued)
       IN  /\ worker' = [worker EXCEPT ![w] = i]
           /\ task' = [task EXCEPT ![i].st = "running"]
    /\ UNCHANGED <<cfg, stock_codes, run_pc, results, uuid_issued, prefetch_calls,
                   prefetch_arg, progress_msgs, delays, success_count, fail_count, agg,
                   routeVars, raceVars, refreshVars, enrichVars>>

\* the pool thread runs process_single_stock to its return
FinishTask(w, in) ==
    /\ worker[w] # 0
    /\ LET i    == worker[w]
           code == stock_codes[i]
           notify == cfg.single_stock_notify /\ cfg.send_notification
           r    == process_single_stock(code, cfg.dry_run, notify, in,
                                        db_has_today, cfg.query_id, uuid_issued)
       IN  /\ InputUsed(in, cfg.dry_run, notify, has_today_data(db_has_today, code))
           /\ task' = [task EXCEPT ![i] =
                          [st |-> "returned", result |-> r.result,
                           hist_id |-> r.hist_id, push |-> r.push,
                           analysis |-> IF cfg.dry_run THEN "unused" ELSE in.analysis,
                           save |-> IF cfg.dry_run \/ in.analysis # "result"
                                    THEN "unused" ELSE in.save,
                           notify |-> IF cfg.dry_run \/ in.analysis # "result" \/ ~notify
                                      THEN "unused" ELSE in.notify]]
           /\ db_has_today' = r.db
           /\ uuid_issued' = r.issued
    /\ worker' = [worker EXCEPT ![w] = 0]
    /\ UNCHANGED <<cfg, stock_codes, run_pc, results, prefetch_calls, prefetch_arg,
                   progress_msgs, delays, success_count, fail_count, agg, today,
                   refresh_log, routeVars, raceVars, enrichVars>>

CollectResultTwice(res, i, has_result) ==
    IF has_result THEN Append(Append(res, i), i) ELSE res

\* run(), lines 706-708: result = future.result(); if result: results.append
CollectResult(res, i, has_result) ==
    IF has_result THEN Append(res, i) ELSE res

AfterCollectFirst(all_collected, has_result) == "finalize"

AfterCollectAbortOnFailure(all_collected, has_result) ==
    IF all_collected \/ ~has_result THEN "finalize" ELSE "collect"

\* run(), lines 703-729: the loop goes on to the next completed future
\* whatever this one returned
AfterCollect(all_collected, has_result) ==
    IF all_collected THEN "finalize" ELSE "collect"

ShouldDelayEvery(idx, n, analysis_delay) == analysis_delay > 0

\* run(), line 721: if idx < len(stock_codes) - 1 and analysis_delay > 0
ShouldDelay(idx, n, analysis_delay) == idx < n - 1 /\ analysis_delay > 0

\* enumerate's idx: the futures as_completed has yielded before this one
Idx == Cardinality({j \in Tasks : task[j].st = "collected"})

\* run(), lines 703-729: as_completed yields a finished future; its result
\* is collected and one progress message is sent for it; then the consuming
\* thread goes to sleep for analysis_delay, or on to the next future
Collect(i) ==
    /\ run_pc = "collect"
    /\ task[i].st = "returned"
    /\ results' = CollectResult(results, i, task[i].result)
    /\ task' = [task EXCEPT ![i].st = "collected"]
    /\ IF ShouldDelay(Idx, NumSymbols, cfg.analysis_delay)
       THEN run_pc' = "delay" /\ delays' = delays + 1
       ELSE /\ run_pc' = AfterCollect(\A j \in Tasks \ {i} : task[j].st = "collected",
                                      task[i].result)
            /\ UNCHANGED delays
    /\ progress_msgs' = progress_msgs + 1
    /\ UNCHANGED <<cfg, stock_codes, worker, uuid_issued, prefetch_calls,
                   prefetch_arg, success_count, fail_count, agg, routeVars,
                   raceVars, refreshVars, enrichVars>>

\* run(), line 723: time.sleep(analysis_delay) returns
DelayEnd ==
    /\ run_pc = "delay"
    /\ run_pc' = "collect"
    /\ UNCHANGED <<cfg, stock_codes, task, worker, results, uuid_issued,
                   prefetch_calls, prefetch_arg, progress_msgs, delays, success_count,
                   fail_count, agg, routeVars, raceVars, refreshVars, enrichVars>>

CountSuccessResults(dry_run, codes, res, db) == Len(res)

\* run(), lines 735-741
CountSuccess(dry_run, codes, res, db) ==
    IF dry_run
    THEN Cardinality({i \in DOMAIN codes : has_today_data(db, codes[i])})
    ELSE Len(res)

AggregateOutcomeSkipInverted(report, single_stock_notify) ==
    IF report = "raise" THEN "failed"
    ELSE IF single_stock_notify THEN "pushed"
    ELSE "saved"

AggregateOutcomeAlwaysPush(report, single_stock_notify) ==
    IF report = "raise" THEN "failed" ELSE "pushed"

\* run(), lines 749-756, and _send_notifications, lines 769-784: the
\* dashboard is generated and saved ("failed" if that raises); with
\* skip_push the call returns there ("saved"), else it goes on to push the
\* report over the notifier's channels ("pushed")
AggregateOutcome(report, single_stock_notify) ==
    IF report = "raise" THEN "failed"
    ELSE IF single_stock_notify THEN "saved"
    ELSE "pushed"

\* run(), lines 731-758 and _send_notifications: the counts, the final
\* progress message, then the dashboard (report: generate_dashboard_report /
\* save_report_to_file return or raise); the call returns
Finalize(report) ==
    /\ run_pc = "finalize"
    /\ success_count' = CountSuccess(cfg.dry_run, stock_codes, results, db_has_today)
    /\ fail_count' = NumSymbols - success_count'
    /\ progress_msgs' = progress_msgs + 1
    /\ IF results # <<>> /\ cfg.send_notification /\ ~cfg.dry_run
       THEN agg' = AggregateOutcome(report, cfg.single_stock_notify)
       ELSE report = "ok" /\ agg' = "none"
    /\ run_pc' = "done"
    /\ UNCHANGED <<cfg, stock_codes, task, worker, results, uuid_issued,
                   prefetch_calls, prefetch_arg, delays, routeVars, raceVars,
                   refreshVars, enrichVars>>

\* the ways run() is used: a dry run, an analysis that pushes the aggregate
\* dashboard, one that pushes per symbol, one that pushes nothing
RunModes ==
    {[dry_run |-> TRUE,  send_notification |-> TRUE,  single_stock_notify |-> FALSE],
     [dry_run |-> FALSE, send_notification |-> TRUE,  single_stock_notify |-> FALSE],
     [dry_run |-> FALSE, send_notification |-> TRUE,  single_stock_notify |-> TRUE],
     [dry_run |-> FALSE, send_notification |-> FALSE, single_stock_notify |-> TRUE]}

\* the arguments of __init__ and run() and the configuration they read;
\* query_id 0 is None, another value is an id the caller drew from uuid4
Init ==
    /\ \E m \in RunModes, mw \in 1..MaxWorkers, qid \in {0, 1}, ad \in {0, 1} :
          cfg = [dry_run |-> m.dry_run, send_notification |-> m.send_notification,
                 single_stock_notify |-> m.single_stock_notify,
                 max_workers |-> mw, query_id |-> qid, analysis_delay |-> ad]
    /\ stock_codes \in {SubSeq(Symbols, 1, n) : n \in 0..MaxSymbols}
    /\ run_pc = "start"
    /\ task = [i \in 1..Len(stock_codes) |-> NewTask]
    /\ worker = [w \in PoolWorkers(cfg.max_workers) |-> 0]
    /\ results = <<>>
    /\ uuid_issued = cfg.query_id
    /\ prefetch_calls = 0 /\ prefetch_arg = <<>> /\ progress_msgs = 0 /\ delays = 0
    /\ success_count = -1 /\ fail_count = -1
    /\ agg = "none"
    /\ db_has_today \in {{}, {Symbols[1]}}
    /\ today = 1
    /\ refresh_log = <<>>
    /\ RouteInit /\ RaceIdle /\ EnrichIdle

Next ==
    \/ \E prefetch \in {"ok", "raise"} : RunStart(prefetch)
    \/ Submit
    \/ \E w \in DOMAIN worker : StartTask(w)
    \/ \E w \in DOMAIN worker, in \in TaskInputs : FinishTask(w, in)
    \/ \E i \in Tasks : Collect(i)
    \/ DelayEnd
    \/ \E report \in {"ok", "raise"} : Finalize(report)

Spec == Init /\ [][Next]_vars

\* a large batch: a dry run over a list that is as long as the prefetch
\* threshold or one symbol shorter
InitBatch ==
    /\ \E mw \in 1..MaxWorkers, ad \in {0, 1} :
          cfg = [dry_run |-> TRUE, send_notification |-> TRUE,
                 single_stock_notify |-> FALSE, max_workers |-> mw, query_id |-> 0,
                 analysis_delay |-> ad]
    /\ stock_codes \in {SubSeq(Symbols, 1, n) :
                           n \in {prefetch_min_symbols - 1, prefetch_min_symbols}}
    /\ run_pc = "start"
    /\ task = [i \in 1..Len(stock_codes) |-> NewTask]
    /\ worker = [w \in PoolWorkers(cfg.max_workers) |-> 0]
    /\ results = <<>>
    /\ uuid_issued = cfg.query_id
    /\ prefetch_calls = 0 /\ prefetch_arg = <<>> /\ progress_msgs = 0 /\ delays = 0
    /\ success_count = -1 /\ fail_count = -1
    /\ agg = "none"
    /\ db_has_today \in {{}, {Symbols[1]}}
    /\ today = 1
    /\ refresh_log = <<>>
    /\ RouteInit /\ RaceIdle /\ EnrichIdle

SpecBatch == InitBatch /\ [][Next]_vars

-----------------------------------------------------------------------------
(* StockAnalysisPipeline.run: properties of Spec                            *)

Collected(i) == \E k \in DOMAIN results : results[k] = i

TimesCollected(i) == Cardinality({k \in DOMAIN results : results[k] = i})

RunReported == run_pc = "done" /\ NumSymbols > 0

\* C1: for every run over a non-empty symbol list, dry run or not and whatever
\* the tasks did, the reported success count plus the reported failure count is
\* the number of input symbols and neither count is negative; the success count
\* is the number of symbols that succeeded, each counted once (analysis: the
\* tasks that returned a result; dry run: the symbols whose data of today is
\* stored)
C1_CountsAddUp ==
    RunReported =>
        /\ success_count + fail_count = NumSymbols
        /\ success_count >= 0 /\ fail_count >= 0
        /\ ~cfg.dry_run =>
              success_count = Cardinality({i \in Tasks : task[i].result})
        /\ cfg.dry_run =>
              success_count =
                  Cardinality({i \in Tasks :
                                 has_today_data(db_has_today, stock_codes[i])})

\* a reported analysis run in which one symbol failed and another succeeded
C1_Witness ==
    /\ RunReported /\ ~cfg.dry_run
    /\ success_count >= 1 /\ fail_count >= 1
    /\ \E i, j \in Tasks : ~task[i].result /\ task[j].result

\* C2: a failure in one symbol's task (its refresh, analysis, persistence or
\* per-symbol push raising or coming back empty) stays with that symbol: once
\* the collection loop is over every symbol of the run was processed to its
\* return and collected, and every result a task produced is in the result
\* list exactly once
C2_FailureIsolated ==
    (run_pc \in {"finalize", "done"} /\ NumSymbols > 0) =>
        \A i \in Tasks :
            /\ task[i].st = "collected"
            /\ task[i].result => TimesCollected(i) = 1
            /\ ~task[i].result => ~Collected(i)

\* the first symbol of the list failed, and a later one was still processed
\* and its result collected
C2_Witness ==
    /\ run_pc = "done" /\ ~cfg.dry_run /\ NumSymbols >= 2
    /\ ~task[1].result /\ task[1].st = "collected"
    /\ task[2].result /\ Collected(2)
    /\ results[1] = 2

\* C3: at every moment of a run at most max_workers symbol tasks are
\* executing, although all of them are submitted at once: a task beyond the
\* bound stays queued until a running one has finished
C3_BoundedConcurrency ==
    /\ Cardinality(Running) <= cfg.max_workers
    /\ \A i \in Running : \E w \in DOMAIN worker : worker[w] = i

\* every symbol is submitted, the pool is full and a task waits in the queue
C3_Witness ==
    /\ run_pc = "collect"
    /\ NumSymbols > cfg.max_workers
    /\ Cardinality(Running) = cfg.max_workers
    /\ Queued # {}

Persisted == {i \in Tasks : task[i].hist_id # NoId}

\* C4: every history record persisted in a run is saved under a freshly
\* generated identifier: no two symbols of the run are persisted under the
\* same identifier and no persisted identifier is the pipeline's batch-level
\* query_id
C4_FreshHistoryIds ==
    \A i \in Persisted :
        /\ task[i].hist_id # cfg.query_id
        /\ \A j \in Persisted : j # i => task[j].hist_id # task[i].hist_id

\* a pipeline built with a batch query_id persisted two symbols' records
C4_Witness ==
    /\ cfg.query_id # 0
    /\ \E i, j \in Persisted : i # j /\ task[i].hist_id # task[j].hist_id

\* nothing of a run happened: no prefetch, no task, no persistence, no
\* progress message, no report, no counts
NothingDone ==
    /\ results = <<>> /\ task = <<>>
    /\ \A w \in DOMAIN worker : worker[w] = 0
    /\ prefetch_calls = 0 /\ prefetch_arg = <<>>
    /\ uuid_issued = cfg.query_id /\ refresh_log = <<>>
    /\ progress_msgs = 0 /\ delays = 0 /\ agg = "none"
    /\ success_count = -1 /\ fail_count = -1

C19_PrefetchOnceBeforeTasks ==
    /\ NumSymbols < 5 => (prefetch_calls = 0 /\ prefetch_arg = <<>>)
    /\ NumSymbols >= 5 =>
          /\ prefetch_calls <= 1
          /\ run_pc # "start" => (prefetch_calls = 1 /\ prefetch_arg = stock_codes)
          /\ (\E i \in Tasks : task[i].st # "new") =>
                (prefetch_calls = 1 /\ prefetch_arg = stock_codes)
          /\ run_pc = "raised" => \A i \in Tasks : task[i].st = "new"

\* a run over 5 symbols has prefetched once and all its tasks are collected
C19_Witness ==
    /\ NumSymbols = 5 /\ run_pc = "done"
    /\ prefetch_calls = 1 /\ prefetch_arg = stock_codes
    /\ \A i \in Tasks : task[i].st = "collected"

\* an analysis run with notifications requested that produced a result
AggregateDue ==
    run_pc = "done" /\ results # <<>> /\ cfg.send_notification /\ ~cfg.dry_run

\* C20: with single_stock_notify the aggregate dashboard is generated and
\* saved but pushed to no channel, so no symbol's report is delivered both
\* per symbol and in the aggregate; without it the aggregate is saved and
\* pushed and no per-symbol push happens (the dashboard's generation and
\* saving not raising)
C20_NoDoubleDelivery ==
    /\ AggregateDue =>
          IF cfg.single_stock_notify
          THEN agg \in {"saved", "failed"}
          ELSE /\ agg \in {"pushed", "failed"}
               /\ \A i \in Tasks : task[i].push = "none"
    /\ agg = "pushed" => \A i \in Tasks : task[i].push = "none"
    /\ (\E i \in Tasks : task[i].push # "none") =>
          cfg.single_stock_notify /\ cfg.send_notification /\ ~cfg.dry_run

\* a run in single-stock mode pushed a symbol's report and only saved the
\* dashboard
C20_Witness ==
    /\ AggregateDue /\ cfg.single_stock_notify
    /\ \E i \in Tasks : task[i].push = "sent"
    /\ agg = "saved"

AnalysisFailed == {i \in Tasks : task[i].analysis \in {"none", "raise"}}

\* C22: if the generative analyze call for a symbol returns no result or
\* raises, no AnalysisResult is emitted for the symbol: nothing is persisted
\* to the analysis history, no per-symbol notification is sent, the symbol is
\* absent from the run's results and it is counted as failed
C22_NoResultOnAnalysisFailure ==
    /\ \A i \in AnalysisFailed :
          /\ ~task[i].result
          /\ task[i].hist_id = NoId /\ task[i].save = "unused"
          /\ task[i].push = "none" /\ task[i].notify = "unused"
          /\ ~Collected(i)
    /\ (RunReported /\ ~cfg.dry_run) =>
          /\ fail_count = Cardinality({i \in Tasks : ~task[i].result})
          /\ fail_count >= Cardinality(AnalysisFailed)

\* a finished run in single-stock mode: the analyzer returned nothing for one
\* symbol and raised for the other, and both are counted as failed
C22_Witness ==
    /\ RunReported /\ ~cfg.dry_run /\ cfg.single_stock_notify /\ cfg.send_notification
    /\ \E i, j \in Tasks : task[i].analysis = "none" /\ task[j].analysis = "raise"
    /\ fail_count = 2 /\ results = <<>>

SaveFailed == {i \in Tasks : task[i].save = "raise"}

\* C23: if saving the analysis history raises for a symbol, the in-memory
\* AnalysisResult is unaffected: analyze_stock still returns it, it still
\* goes through the per-symbol notification when that mode is on (the only
\* way the task loses it there is notifier.is_available() raising, as for a
\* symbol whose save went through), it is included in the run's results and
\* counted as a success
C23_SaveFailureKeepsResult ==
    /\ \A i \in SaveFailed :
          /\ task[i].analysis = "result" /\ task[i].hist_id = NoId
          /\ task[i].result <=> task[i].notify # "avail_raise"
          /\ task[i].notify # "unused" <=>
                (cfg.single_stock_notify /\ cfg.send_notification)
          /\ task[i].push = "sent" <=> task[i].notify = "sent"
          /\ (task[i].st = "collected" /\ task[i].result) => TimesCollected(i) = 1
    /\ (RunReported /\ ~cfg.dry_run) =>
          success_count >=
              Cardinality({i \in SaveFailed : task[i].notify # "avail_raise"})

\* the save raised for a symbol; its report was still pushed, its result is
\* in the run's results and the run counts it as a success
C23_Witness ==
    /\ RunReported /\ success_count >= 1
    /\ \E i \in SaveFailed :
          task[i].result /\ task[i].push = "sent" /\ Collected(i)

CollectedTasks == {i \in Tasks : task[i].st = "collected"}

IdleWorker == \E w \in DOMAIN worker : worker[w] = 0

\* C26: the inter-symbol delay never delays task submission or task start:
\* every symbol task is submitted before the first delay, a delay is applied
\* only by the consuming thread right after it collected a completed future
\* (one delay per collected future at most, none after the last one, so at
\* most NumSymbols - 1 per run, and none with analysis_delay = 0), and while
\* the consumer is delaying a pending task starts as soon as a pool thread
\* is idle
C26_DelayOnlyThrottlesConsumer ==
    /\ delays <= Cardinality(CollectedTasks)
    /\ NumSymbols > 0 => delays <= NumSymbols - 1
    /\ delays > 0 => \A i \in Tasks : task[i].st # "new"
    /\ cfg.analysis_delay = 0 => (delays = 0 /\ run_pc # "delay")
    /\ run_pc = "delay" =>
          /\ delays = Cardinality(CollectedTasks)
          /\ Cardinality(CollectedTasks) < NumSymbols
    /\ (RunReported /\ cfg.analysis_delay > 0) => delays = NumSymbols - 1
    /\ (run_pc = "delay" /\ Queued # {} /\ IdleWorker) =>
          ENABLED (\E w \in DOMAIN worker : StartTask(w))

\* the consumer sleeps after the first collected future while the other
\* symbol's task is still pending and the pool thread is free to take it
C26_Witness ==
    /\ run_pc = "delay" /\ delays = 1
    /\ Queued # {} /\ IdleWorker
    /\ Cardinality(CollectedTasks) = 1

-----------------------------------------------------------------------------
(* Route health: properties of SpecRoute                                   *)

LogEntries == {fetch_log[i] : i \in DOMAIN fetch_log}

RouteAbsent(r) == r \notin DOMAIN route_fail_counts /\ r \notin DOMAIN route_last_fail_ts

SkipsAt(r, t) == _should_skip_route(route_fail_counts, route_last_fail_ts, r, t)

\* C6: a route with at least route_fail_threshold consecutive failed fetches
\* (open: the last of them less than route_cooldown_seconds ago) is skipped
\* by every fetch and no HTTP try is made for it; a route with fewer
\* consecutive failures (closed) is always attempted.
C6_OpenRouteIsSkipped ==
    /\ \A e \in LogEntries :
         /\ e.phase = "open" => (e.skipped /\ e.attempts = 0 /\ e.recorded = "none")
         /\ e.phase = "closed" => (~e.skipped /\ e.attempts >= 1)
    /\ \A r \in Routes :
         /\ Phase(streak[r], last_fail_at[r], now) = "open" => SkipsAt(r, now)
         /\ Phase(streak[r], last_fail_at[r], now) = "closed" => ~SkipsAt(r, now)

\* a fetch met an open route, later than the failure that opened it, and skipped it
C6_Witness ==
    \E e \in LogEntries :
        /\ e.phase = "open" /\ e.skipped
        /\ now > last_fail_at[e.route]
        /\ streak[e.route] = route_fail_threshold

\* C7: a recorded success leaves the route without an entry in either table,
\* the stored count is the number of failed fetches since the last success,
\* and a route is skipped only with route_fail_threshold or more of them.
C7_SuccessResets ==
    /\ \A e \in LogEntries : e.recorded = "success" => RouteAbsent(e.route)
    /\ \A r \in Routes :
         /\ DictGet(route_fail_counts, r, 0) = streak[r]
         /\ SkipsAt(r, now) => streak[r] >= route_fail_threshold

\* a success arrived one failure short of the threshold and cleared the entry
C7_Witness ==
    \E e \in LogEntries :
        /\ e.recorded = "success"
        /\ e.cnt_before = route_fail_threshold - 1
        /\ RouteAbsent(e.route)

\* C8: a half-open route (threshold reached, cooldown over) is attempted; a
\* success clears its entry, a failure adds one to the count, stamps the time
\* the failed fetch ended and has the route skipped from then until a full
\* cooldown later.
C8_HalfOpen ==
    \A e \in LogEntries :
        e.phase = "half_open" =>
            /\ ~e.skipped /\ e.attempts >= 1
            /\ e.recorded \in {"success", "failure"}
            /\ e.recorded = "success" => RouteAbsent(e.route)
            /\ e.recorded = "failure" =>
                 /\ ~RouteAbsent(e.route)
                 /\ route_fail_counts[e.route] = e.cnt_before + 1
                 /\ route_last_fail_ts[e.route] = last_fail_at[e.route]
                 /\ SkipsAt(e.route, last_fail_at[e.route])
                 /\ SkipsAt(e.route, last_fail_at[e.route] + route_cooldown_seconds - 1)
                 /\ ~SkipsAt(e.route, last_fail_at[e.route] + route_cooldown_seconds)

\* the probe of a half-open route failed and the route is being skipped again
C8_Witness ==
    \E e \in LogEntries :
        /\ e.phase = "half_open" /\ e.recorded = "failure"
        /\ e.cnt_before >= route_fail_threshold
        /\ SkipsAt(e.route, now)

-----------------------------------------------------------------------------
(* RssNewsService: deduplication, relevance filter, scoring, ranking and   *)
(* truncation of the fetched items (news_service.py).  A text is a tuple   *)
(* of tokens (a letter, a blank, a word, a host name); lower() and the     *)
(* whitespace handling act token by token, `in` is containment of a        *)
(* contiguous run of tokens.  Scores are in tenths.                        *)

\* the longest list of fetched items and the largest max_items followed
MaxNewsItems == 2

MaxMaxItems == 2

MaxNewsCalls == 2

\* str.lower()
LowerTok(c) ==
    CASE c = "A" -> "a"
      [] c = "Mt" -> "mt"
      [] c = "MT" -> "mt"
      [] c = "SH" -> "sh"
      [] c = "HTTPS://" -> "https://"
      [] c = "CLS.CN" -> "cls.cn"
      [] c = "/X" -> "/x"
      [] OTHER -> c

Lower(text) == [i \in DOMAIN text |-> LowerTok(text[i])]

IsSpace(c) == c = " "

\* re.sub(r"\s+", "", text)
RECURSIVE RemoveSpace(_)
RemoveSpace(text) ==
    IF text = <<>> THEN <<>>
    ELSE IF IsSpace(Head(text)) THEN RemoveSpace(Tail(text))
    ELSE <<Head(text)>> \o RemoveSpace(Tail(text))

RECURSIVE LStrip(_)
LStrip(text) ==
    IF text # <<>> /\ IsSpace(Head(text)) THEN LStrip(Tail(text)) ELSE text

RECURSIVE RStrip(_)
RStrip(text) ==
    IF text # <<>> /\ IsSpace(text[Len(text)])
    THEN RStrip(SubSeq(text, 1, Len(text) - 1)) ELSE text

\* str.strip()
Strip(text) == RStrip(LStrip(text))

\* sub in text
Contains(sub, text) ==
    \E i \in 0..(Len(text) - Len(sub)) : SubSeq(text, i + 1, i + Len(sub)) = sub

IsDigit(text) ==
    text # <<>> /\ \A i \in DOMAIN text :
        text[i] \in {"0", "1", "2", "3", "4", "5", "6", "7", "8", "9"}

\* _dedupe_items, lines 245-247: the key an item is remembered under
DedupeKeyPair(item) ==
    <<RemoveSpace(Lower(item.title)), Lower(Strip(item.link))>>

DedupeKey(item) ==
    RemoveSpace(Lower(item.title)) \o <<"|">> \o Lower(Strip(item.link))

RECURSIVE DedupeLoop(_, _, _)
DedupeLoop(items, seen, output) ==
    IF items = <<>> THEN output
    ELSE LET item == Head(items)
             key  == DedupeKey(item)
         IN  IF key \in seen
             THEN DedupeLoop(Tail(items), seen, output)
             ELSE DedupeLoop(Tail(items), seen \cup {key}, Append(output, item))

\* _dedupe_items(items)
_dedupe_items(items) == DedupeLoop(items, {}, <<>>)

\* list(dict.fromkeys(seq)): the first occurrence of each element, in order
RECURSIVE FromKeys(_, _)
FromKeys(seq, acc) ==
    IF seq = <<>> THEN acc
    ELSE IF \E i \in DOMAIN acc : acc[i] = Head(seq)
    THEN FromKeys(Tail(seq), acc)
    ELSE FromKeys(Tail(seq), Append(acc, Head(seq)))

\* [x for x in seq if x]
RECURSIVE NonEmpty(_)
NonEmpty(seq) ==
    IF seq = <<>> THEN <<>>
    ELSE IF Head(seq) = <<>> THEN NonEmpty(Tail(seq))
    ELSE <<Head(seq)>> \o NonEmpty(Tail(seq))

\* _build_stock_keywords(stock_code, stock_name)
_build_stock_keywords(stock_code, stock_name) ==
    LET code == Strip(stock_code)
        name == Strip(stock_name)
        base == NonEmpty(<<name, code>>)
        keywords ==
            IF code # <<>> /\ IsDigit(code) /\ Len(code) = 6
            THEN IF code[1] \in {"6", "9"}
                 THEN Append(base, <<"sh">> \o code)
                 ELSE Append(base, <<"sz">> \o code)
            ELSE base
    IN  FromKeys([i \in DOMAIN keywords |-> Lower(keywords[i])], <<>>)

\* f"{item.title} {item.summary}".lower()
ItemText(item) == Lower(item.title \o <<" ">> \o item.summary)

\* _is_stock_related(item, keywords)
_is_stock_related(item, keywords) ==
    IF keywords = <<>> THEN TRUE
    ELSE \E k \in DOMAIN keywords :
             keywords[k] # <<>> /\ Contains(keywords[k], ItemText(item))

\* urlparse(link).netloc: what stands between "//" and the path
Netloc(link) ==
    IF Len(link) >= 2 /\ link[1] \in {"https://", "HTTPS://"}
       /\ link[2] \notin {"/x", "/X", "/1", "|", " "}
    THEN link[2] ELSE ""

\* _source_weight(link), lines 305-318
_source_weight(link) ==
    IF link = <<>> THEN 0
    ELSE LET host == LowerTok(Netloc(link))
         IN  IF host \in {"cls.cn", "wallstreetcn.com", "sina.com.cn"} THEN 12
             ELSE IF host \in {"xueqiu.com", "eastmoney.com", "cnstock.com"} THEN 8
             ELSE 3

\* published: the hour the text parses to, NoDate for an empty or malformed one
NoDate == -1

\* _recency_weight(published), lines 320-333
_recency_weight(published, now_h) ==
    IF published = NoDate THEN 0
    ELSE LET age_hours == IF now_h - published < 0 THEN 0 ELSE now_h - published
         IN  IF age_hours <= 24 THEN 12
             ELSE IF age_hours <= 72 THEN 8
             ELSE IF age_hours <= 168 THEN 4
             ELSE 1

RECURSIVE KeywordScore(_, _, _)
KeywordScore(keywords, text, title_text) ==
    IF keywords = <<>> THEN 0
    ELSE LET kw == Head(keywords)
         IN  (IF kw # <<>> /\ Contains(kw, text) THEN 20 ELSE 0)
             + (IF kw # <<>> /\ Contains(kw, title_text) THEN 15 ELSE 0)
             + KeywordScore(Tail(keywords), text, title_text)

_score_item_title_only(item, stock_code, stock_name, keywords, scene, now_h) ==
    LET title_text == Lower(item.title)
    IN  (IF scene = "stock"
         THEN KeywordScore(keywords, title_text, <<>>)
         ELSE 0)
        + _source_weight(item.link) + _recency_weight(item.published, now_h)

\* _score_item(item, stock_code, stock_name, keywords, scene)
_score_item(item, stock_code, stock_name, keywords, scene, now_h) ==
    LET text == ItemText(item)
        title_text == Lower(item.title)
        code == Lower(stock_code)
        name == Lower(stock_name)
    IN  (IF scene = "stock"
         THEN KeywordScore(keywords, text, title_text)
              + (IF code # <<>> /\ Contains(code, text) THEN 25 ELSE 0)
              + (IF name # <<>> /\ Contains(name, title_text) THEN 20 ELSE 0)
         ELSE 0)
        + _source_weight(item.link) + _recency_weight(item.published, now_h)

\* [x for x in seq if pred]
RECURSIVE Related(_, _)
Related(items, keywords) ==
    IF items = <<>> THEN <<>>
    ELSE IF _is_stock_related(Head(items), keywords)
    THEN <<Head(items)>> \o Related(Tail(items), keywords)
    ELSE Related(Tail(items), keywords)

TargetItemsNoFallback(deduped, related) == related

\* _rank_and_filter_items, line 223: target_items = related if related else deduped
TargetItems(deduped, related) == IF related # <<>> THEN related ELSE deduped

\* list.sort(key=score, reverse=True): a stable sort, the larger score first.
\* InsertDesc puts a pair behind every pair whose score is not smaller.
RECURSIVE InsertDesc(_, _)
InsertDesc(sorted, pair) ==
    IF sorted = <<>> THEN <<pair>>
    ELSE IF Head(sorted)[1] >= pair[1]
    THEN <<Head(sorted)>> \o InsertDesc(Tail(sorted), pair)
    ELSE <<pair>> \o sorted

RECURSIVE InsertDescUnstable(_, _)
InsertDescUnstable(sorted, pair) ==
    IF sorted = <<>> THEN <<pair>>
    ELSE IF Head(sorted)[1] > pair[1]
    THEN <<Head(sorted)>> \o InsertDescUnstable(Tail(sorted), pair)
    ELSE <<pair>> \o sorted

RECURSIVE SortDescFrom(_, _)
SortDescFrom(scored, sorted) ==
    IF scored = <<>> THEN sorted
    ELSE SortDescFrom(Tail(scored), InsertDesc(sorted, Head(scored)))

RECURSIVE SortDescUnstableFrom(_, _)
SortDescUnstableFrom(scored, sorted) ==
    IF scored = <<>> THEN sorted
    ELSE SortDescUnstableFrom(Tail(scored), InsertDescUnstable(sorted, Head(scored)))

SortDescUnstable(scored) == SortDescUnstableFrom(scored, <<>>)

\* scored.sort(key=lambda x: x[0], reverse=True), line 238
SortDesc(scored) == SortDescFrom(scored, <<>>)

\* lines 233-236: every item that takes part is scored
ScoreAll(target_items, stock_code, stock_name, keywords, scene, now_h) ==
    [i \in DOMAIN target_items |->
        <<_score_item(target_items[i], stock_code, stock_name, keywords, scene, now_h),
          target_items[i]>>]

\* line 239: return [item for _, item in scored]
RankResult(deduped, related, target_items, scored) ==
    [deduped |-> deduped, related |-> related, target |-> target_items,
     scored |-> scored, ranked |-> [i \in DOMAIN scored |-> scored[i][2]]]

\* lines 233-239, for the items that take part
RankTarget(deduped, related, target_items, stock_code, stock_name, keywords, scene, now_h) ==
    RankResult(deduped, related, target_items,
               SortDesc(ScoreAll(target_items, stock_code, stock_name, keywords,
                                 scene, now_h)))

\* lines 219-239, for the related items
RankRelated(deduped, related, stock_code, stock_name, keywords, scene, now_h) ==
    RankTarget(deduped, related,
               IF scene = "stock" THEN TargetItems(deduped, related) ELSE deduped,
               stock_code, stock_name, keywords, scene, now_h)

\* lines 216-239, for the deduplicated items and the keywords
RankDeduped(deduped, stock_code, stock_name, keywords, scene, now_h) ==
    RankRelated(deduped,
                IF scene = "stock" THEN Related(deduped, keywords) ELSE deduped,
                stock_code, stock_name, keywords, scene, now_h)

\* _rank_and_filter_items(items, stock_code, stock_name, scene): the
\* deduplicated list, the related items, the items that are scored, and the
\* (score, item) pairs in ranked order
_rank_and_filter_items(items, stock_code, stock_name, scene, now_h) ==
    RankDeduped(_dedupe_items(items), stock_code, stock_name,
                IF scene = "stock"
                THEN _build_stock_keywords(stock_code, stock_name) ELSE <<>>,
                scene, now_h)

TopNAll(ranked, max_items) == ranked

\* ranked_items[: self.max_items], lines 137 and 69
TopN(ranked, max_items) ==
    SubSeq(ranked, 1, IF Len(ranked) < max_items THEN Len(ranked) ELSE max_items)

\* __init__, line 51: max(20, int(jina_reader_min_snippet_len)), default 80
jina_min_snippet_len == 80

\* _enhance_with_jina(items): jina is "off" (jina_enabled false), "text" (the
\* reader returns a text) or "fail" (_fetch_jina_reader returns "")
_enhance_with_jina(items, jina) ==
    [i \in DOMAIN items |->
        IF jina = "off" THEN items[i]
        ELSE IF Len(items[i].summary) >= jina_min_snippet_len THEN items[i]
        ELSE IF items[i].link = <<>> THEN items[i]
        ELSE IF jina = "text" THEN [items[i] EXCEPT !.summary = <<"full", "text">>]
        ELSE items[i]]

\* _fetch_news_items, lines 136-143: the top of the ranking, summaries
\* backfilled
SelectTop(r, max_items, jina) ==
    [deduped |-> r.deduped, related |-> r.related, target |-> r.target,
     scored |-> r.scored, ranked |-> r.ranked,
     selected |-> _enhance_with_jina(TopN(r.ranked, max_items), jina)]

\* _fetch_news_items, lines 133-143: what it returns for the raw items the
\* routes delivered
SelectNewsItems(all_items, stock_code, stock_name, scene, max_items, now_h, jina) ==
    IF all_items = <<>>
    THEN [deduped |-> <<>>, related |-> <<>>, target |-> <<>>, scored |-> <<>>,
          ranked |-> <<>>, selected |-> <<>>]
    ELSE SelectTop(_rank_and_filter_items(all_items, stock_code, stock_name,
                                          scene, now_h),
                   max_items, jina)

\* build_news_context(stock_code, stock_name, scene), lines 59-78: the items
\* it renders, one numbered entry each
build_news_context(enabled, selected, max_items) ==
    IF ~enabled THEN [kind |-> "disabled", items |-> <<>>]
    ELSE IF selected = <<>> THEN [kind |-> "placeholder", items |-> <<>>]
    ELSE [kind |-> "items", items |-> TopN(selected, max_items)]

NewsItem(title, link, published, summary) ==
    [title |-> title, link |-> link, published |-> published, summary |-> summary]

\* the items a feed may deliver (_parse_feed keeps an item only if it has a title)
FeedItems ==
    { NewsItem(<<"A", " ", "co">>, <<"https://", "cls.cn", "/x">>, 90, <<>>),
      NewsItem(<<"a", " ", "co">>, <<"HTTPS://", "CLS.CN", "/X">>, 90, <<"Mt">>),
      NewsItem(<<"Mt", " ", "up">>, <<"https://", "xueqiu.com", "/1">>, 10, <<>>),
      NewsItem(<<"up">>, <<"https://", "xueqiu.com", "/1">>, 10, <<"MT", " ", "up">>),
      NewsItem(<<"SH", "6", "0", "0", "5", "1", "9">>, <<"other.cn">>, NoDate, <<>>),
      NewsItem(<<"a">>, <<"b", "|", "c">>, NoDate, <<>>),
      NewsItem(<<"a", "|", "b">>, <<"c">>, NoDate, <<>>),
      NewsItem(<<"oil">>, <<>>, NoDate, <<>>),
      NewsItem(<<"gas">>, <<>>, NoDate, <<"gas", " ", "up">>) }

\* the symbols news is fetched for: code and name
NewsStocks ==
    { [code |-> <<"6", "0", "0", "5", "1", "9">>, name |-> <<"Mt">>],
      [code |-> <<"0", "0", "0", "0", "0", "1">>, name |-> <<>>] }

RECURSIVE ListsUpTo(_, _)
ListsUpTo(S, n) ==
    IF n = 0 THEN {<<>>}
    ELSE LET shorter == ListsUpTo(S, n - 1)
         IN  shorter \cup {Append(l, x) : l \in {k \in shorter : Len(k) = n - 1}, x \in S}

NewsClocks == {100, 200}

\* what a build_news_context call computed, for the record
NewsRecord(sel, enabled, now_h, max_items) ==
    [now |-> now_h, enabled |-> enabled,
     deduped |-> sel.deduped, related |-> sel.related, target |-> sel.target,
     scored |-> sel.scored, ranked |-> sel.ranked, selected |-> sel.selected,
     rendered |-> build_news_context(enabled, sel.selected, max_items)]

\* one build_news_context call (a disabled service fetches nothing)
NewsCall(enabled) ==
    /\ Len(news_log) < MaxNewsCalls
    /\ news_log' = Append(news_log,
           NewsRecord(SelectNewsItems(IF enabled THEN news_in.all_items ELSE <<>>,
                                      news_in.stock.code, news_in.stock.name,
                                      news_in.scene, news_in.max_items, news_now,
                                      news_in.jina),
                      enabled, news_now, news_in.max_items))
    /\ UNCHANGED <<news_in, news_now, routeVars, raceVars, refreshVars, runVars,
                   intelVars, moreVars>>

\* the clock moves on between two calls
NewsTick ==
    /\ \E t \in NewsClocks : t > news_now /\ news_now' = t
    /\ UNCHANGED <<news_in, news_log, routeVars, raceVars, refreshVars, runVars,
                   intelVars, moreVars>>

\* __init__, line 46: self.max_items = max(1, int(rsshub_max_items))
MaxItemsOf(rsshub_max_items) == IF rsshub_max_items < 1 THEN 1 ELSE rsshub_max_items

\* the feed items of the routes, the symbol, the scene and the service's
\* configuration (rsshub_max_items, the Jina reader: off, answering, failing)
InitNews ==
    /\ news_in \in [all_items : ListsUpTo(FeedItems, MaxNewsItems),
                    stock : NewsStocks, scene : {"stock", "market"},
                    max_items : {MaxItemsOf(n) : n \in 0..MaxMaxItems},
                    jina : {"off", "text", "fail"}]
    /\ news_now = 100
    /\ news_log = <<>>
    /\ IntelIdle /\ MoreIdle /\ RouteInit /\ RaceIdle /\ RefreshIdle /\ RunIdle

NextNews ==
    \/ \E enabled \in BOOLEAN : NewsCall(enabled)
    \/ NewsTick

SpecNews == InitNews /\ [][NextNews]_vars

-----------------------------------------------------------------------------
(* StockAnalysisPipeline._build_intel_context: the three structured        *)
(* sources, the web-search fallback and the persistence of its results     *)

\* max_searches of the fallback search
fallback_max_searches == 5

IntelSources == <<"finance", "sentiment", "news">>

\* the dimensions a comprehensive search answers for
Dimensions == <<"latest_news", "risk_check">>

\* What the collaborators do during one call:
\*   finance, sentiment, news  "text": the service returns a non-empty text;
\*                             "empty": it returns ""; "raise": it raises
\*   available   search_service.is_available
\*   search      "raise": search_comprehensive_intel raises; "none": it
\*               returns an empty dict; "dims": it returns one response per
\*               dimension, described by responses
\*   responses   per dimension "hit" (success with results), "no_results"
\*               (success, empty result list) or "failed" (success false)
\*   format      format_intel_report returns a "text", "" ("empty") or raises
\*   save_raise  the dimension at which save_news_intel raises; 0: none does
IntelInputs ==
    [finance : {"text", "empty", "raise"},
     sentiment : {"text", "empty", "raise"},
     news : {"text", "empty", "raise"},
     available : BOOLEAN,
     search : {"raise", "none", "dims"},
     responses : [1..Len(Dimensions) -> {"hit", "no_results", "failed"}],
     format : {"text", "empty", "raise"},
     save_raise : 0..Len(Dimensions)]

IntelStart == [calls |-> <<>>, blocks |-> <<>>, raised |-> FALSE]

SourceStepPropagate(st, name, outcome) ==
    IF st.raised THEN st
    ELSE [calls |-> Append(st.calls, name),
          blocks |-> IF outcome = "text" THEN Append(st.blocks, name) ELSE st.blocks,
          raised |-> outcome = "raise"]

\* lines 306-328: one try block per source; a text is appended to blocks, an
\* empty text or an exception leaves blocks as it is
SourceStep(st, name, outcome) ==
    IF st.raised THEN st
    ELSE [calls |-> Append(st.calls, name),
          blocks |-> IF outcome = "text" THEN Append(st.blocks, name) ELSE st.blocks,
          raised |-> FALSE]

ShouldFallbackAlways(blocks, available) == available

\* line 331: if not blocks and self.search_service.is_available
ShouldFallback(blocks, available) == blocks = <<>> /\ available

\* lines 345-355: the loop over intel_results.items() until a save raises
RECURSIVE SaveLoop(_, _, _, _)
SaveLoop(d, responses, save_raise, saved) ==
    IF d > Len(Dimensions) THEN saved
    ELSE IF responses[d] # "hit" THEN SaveLoop(d + 1, responses, save_raise, saved)
    ELSE IF save_raise = d THEN saved
    ELSE SaveLoop(d + 1, responses, save_raise, Append(saved, Dimensions[d]))

\* lines 331-360: the fallback; what it adds to blocks and what it persists
Fallback(in) ==
    IF in.search = "raise" \/ in.search = "none" \/ in.format = "raise"
    THEN [blocks |-> <<>>, persisted |-> <<>>]
    ELSE [blocks |-> IF in.format = "text" THEN <<"search">> ELSE <<>>,
          persisted |-> SaveLoop(1, in.responses, in.save_raise, <<>>)]

\* _build_intel_context(code, stock_name): the calls made, the blocks joined
\* (by their source), what is returned ("none" for None), the searches issued
\* with their max_searches, and the dimensions persisted
_build_intel_context(in) ==
    LET s1 == SourceStep(IntelStart, IntelSources[1], in.finance)
        s2 == SourceStep(s1, IntelSources[2], in.sentiment)
        s3 == SourceStep(s2, IntelSources[3], in.news)
        fb == ~s3.raised /\ ShouldFallback(s3.blocks, in.available)
        f  == IF fb THEN Fallback(in) ELSE [blocks |-> <<>>, persisted |-> <<>>]
        blocks == s3.blocks \o f.blocks
    IN  [calls |-> s3.calls, raised |-> s3.raised,
         searches |-> IF fb THEN <<fallback_max_searches>> ELSE <<>>,
         persisted |-> f.persisted,
         blocks |-> IF s3.raised THEN <<>> ELSE blocks,
         ret |-> IF s3.raised \/ blocks = <<>> THEN "none" ELSE "text"]

\* analyze_stock, lines 235 and 261: analyzer.analyze is called with the
\* returned context ("not_called" if _build_intel_context raised)
AnalyzeAfterIntel(r) == IF r.raised THEN "not_called" ELSE r.ret

\* inputs that differ only in a call that is not made are one input
IntelInputUsed(in) ==
    LET dry == \/ in.finance = "text" \/ in.sentiment = "text" \/ in.news = "text"
               \/ ~in.available
    IN  /\ dry => in.search = "none"
        /\ in.search # "dims" =>
              /\ in.format = "text" /\ in.save_raise = 0
              /\ \A d \in DOMAIN in.responses : in.responses[d] = "failed"
        /\ in.format = "raise" => in.save_raise = 0
        /\ (in.save_raise > 0) => in.responses[in.save_raise] = "hit"

\* one analyze_stock reaching step 4: _build_intel_context, then the analyzer
IntelCall(in) ==
    /\ IntelInputUsed(in)
    /\ intel_in' = in
    /\ LET r == _build_intel_context(in)
       IN  intel_log' = <<[calls |-> r.calls, raised |-> r.raised,
                          searches |-> r.searches, persisted |-> r.persisted,
                          blocks |-> r.blocks, ret |-> r.ret,
                          analyze |-> AnalyzeAfterIntel(r)]>>
    /\ UNCHANGED <<newsVars, moreVars, routeVars, raceVars, refreshVars, runVars>>

InitIntel ==
    IntelIdle /\ NewsIdle /\ MoreIdle /\ RouteInit /\ RaceIdle /\ RefreshIdle /\ RunIdle

NextIntel == \E in \in IntelInputs : IntelCall(in)

SpecIntel == InitIntel /\ [][NextIntel]_vars

-----------------------------------------------------------------------------
(* News ranking: properties of SpecNews                                    *)

\* the calls that went through to the ranking
NewsRuns == {k \in DOMAIN news_log : news_log[k].enabled}

\* the items of a list whose identity key no earlier item of the list has
RECURSIVE FirstOfEachKey(_, _)
FirstOfEachKey(items, i) ==
    IF i > Len(items) THEN <<>>
    ELSE IF \E j \in 1..(i - 1) : DedupeKeyPair(items[j]) = DedupeKeyPair(items[i])
    THEN FirstOfEachKey(items, i + 1)
    ELSE <<items[i]>> \o FirstOfEachKey(items, i + 1)

\* C11: deduplication collapses items by the identity key (normalized
\* lower-cased title, normalized lower-cased link): the output holds no two
\* items with the same key, it is the input with the first occurrence of each
\* key kept and every later one dropped, and deduplicating it again changes
\* nothing
C11_DedupByIdentityKey ==
    \A k \in NewsRuns :
        LET out == news_log[k].deduped
        IN  /\ \A i, j \in DOMAIN out :
                  i # j => DedupeKeyPair(out[i]) # DedupeKeyPair(out[j])
            /\ out = FirstOfEachKey(news_in.all_items, 1)
            /\ _dedupe_items(out) = out

\* the item's title and summary mention the symbol: its name, its code or
\* its code with the exchange prefix, in any letter case
MentionsStock(item, stock) ==
    LET text == ItemText(item)
        code == Lower(Strip(stock.code))
        name == Lower(Strip(stock.name))
    IN  \/ name # <<>> /\ Contains(name, text)
        \/ code # <<>> /\ Contains(code, text)
        \/ code # <<>> /\ Contains(<<"sh">> \o code, text)
        \/ code # <<>> /\ Contains(<<"sz">> \o code, text)

SameItems(a, b) ==
    /\ Len(a) = Len(b)
    /\ \A i \in DOMAIN a : \E j \in DOMAIN b : a[i] = b[j]
    /\ \A j \in DOMAIN b : \E i \in DOMAIN a : a[i] = b[j]

\* C12: in the stock scene the ranked items are exactly the deduplicated
\* items that mention the symbol when there is such an item, and all the
\* deduplicated items otherwise; the ranking of a non-empty deduplicated
\* list is never empty
C12_FilterFallsBack ==
    \A k \in NewsRuns :
        LET e == news_log[k]
            mentioning == {i \in DOMAIN e.deduped :
                             MentionsStock(e.deduped[i], news_in.stock)}
        IN  (news_in.scene = "stock" /\ e.deduped # <<>>) =>
                /\ e.ranked # <<>>
                /\ mentioning # {} =>
                      /\ Len(e.ranked) = Cardinality(mentioning)
                      /\ \A i \in DOMAIN e.deduped :
                            (i \in mentioning) <=>
                                (\E j \in DOMAIN e.ranked : e.ranked[j] = e.deduped[i])
                /\ mentioning = {} => SameItems(e.ranked, e.deduped)

\* no deduplicated item mentions the symbol and all of them are ranked
C12_Witness ==
    \E k \in NewsRuns :
        /\ news_in.scene = "stock"
        /\ Len(news_log[k].deduped) = 2
        /\ \A i \in DOMAIN news_log[k].deduped :
              ~MentionsStock(news_log[k].deduped[i], news_in.stock)
        /\ Len(news_log[k].ranked) = 2

\* where an item stands in a list of distinct items
PosIn(item, items) == CHOOSE i \in DOMAIN items : items[i] = item

\* C13: the ranked list is ordered by non-increasing score, items of equal
\* score keep the relative order they have in the deduplicated input, and
\* ranking the same input twice at the same clock time gives the same order
C13_StableDescendingRank ==
    /\ \A k \in NewsRuns :
          LET e == news_log[k]
          IN  \A i, j \in DOMAIN e.scored :
                  i < j =>
                      /\ e.scored[i][1] >= e.scored[j][1]
                      /\ e.scored[i][1] = e.scored[j][1] =>
                            PosIn(e.scored[i][2], e.deduped)
                                < PosIn(e.scored[j][2], e.deduped)
    /\ \A k1, k2 \in NewsRuns :
          news_log[k1].now = news_log[k2].now =>
              news_log[k1].ranked = news_log[k2].ranked

\* two calls at the same clock time ranked two items of equal score
C13_Witness ==
    /\ Cardinality(NewsRuns) = 2
    /\ news_log[1].now = news_log[2].now
    /\ Len(news_log[2].scored) = 2
    /\ news_log[2].scored[1][1] = news_log[2].scored[2][1]
    /\ news_log[2].scored[1][2] # news_log[2].scored[2][2]

\* the keyword set of a symbol, e.g. {"贵州茅台", "600519", "sh600519"}
KeywordSet(stock) ==
    LET code == Lower(Strip(stock.code))
        name == Lower(Strip(stock.name))
    IN  {name, code,
         IF code = <<>> THEN <<>>
         ELSE IF code[1] \in {"6", "9"} THEN <<"sh">> \o code
         ELSE <<"sz">> \o code} \ {<<>>}

\* every keyword match of item a (in the text, in the title) is one of item b
MatchesCarryOver(a, b, stock) ==
    \A kw \in KeywordSet(stock) :
        /\ Contains(kw, ItemText(a)) => Contains(kw, ItemText(b))
        /\ Contains(kw, Lower(a.title)) => Contains(kw, Lower(b.title))

NameOnlyInSummary(item, stock) ==
    LET name == Lower(Strip(stock.name))
    IN  /\ name # <<>>
        /\ Contains(name, Lower(item.summary))
        /\ \A kw \in KeywordSet(stock) :
              /\ ~Contains(kw, Lower(item.title))
              /\ Contains(kw, ItemText(item)) => kw = name

NameInTitle(item, stock) ==
    Strip(stock.name) # <<>> /\ Contains(Lower(Strip(stock.name)), Lower(item.title))

\* C14: in the stock scene an item that has the stock name only in its
\* summary scores 2.0 for the keyword plus its source and recency weight;
\* among items of the same link and publication time that is strictly less
\* than the score of an item with the name in its title, and an item whose
\* keyword matches include those of another (a match moved from the summary
\* to the title) never scores lower
C14_TitleMatchOutscoresSummary ==
    \A k \in NewsRuns :
        LET e == news_log[k]
        IN  news_in.scene = "stock" =>
              \A i, j \in DOMAIN e.scored :
                  LET a == e.scored[i][2]
                      b == e.scored[j][2]
                  IN  /\ NameOnlyInSummary(a, news_in.stock) =>
                            e.scored[i][1] = 20 + _source_weight(a.link)
                                             + _recency_weight(a.published, e.now)
                      /\ (a.link = b.link /\ a.published = b.published) =>
                            /\ (NameOnlyInSummary(a, news_in.stock)
                                  /\ NameInTitle(b, news_in.stock))
                                  => e.scored[i][1] < e.scored[j][1]
                            /\ MatchesCarryOver(a, b, news_in.stock)
                                  => e.scored[i][1] <= e.scored[j][1]

\* an item with the name only in its summary and one with the name in its
\* title, same link and publication time, were scored together
C14_Witness ==
    \E k \in NewsRuns :
        /\ news_in.scene = "stock"
        /\ \E i, j \in DOMAIN news_log[k].scored :
              LET a == news_log[k].scored[i][2]
                  b == news_log[k].scored[j][2]
              IN  /\ a.link = b.link /\ a.published = b.published
                  /\ NameOnlyInSummary(a, news_in.stock)
                  /\ NameInTitle(b, news_in.stock)
                  /\ news_log[k].scored[i][1] + 15 <= news_log[k].scored[j][1]

\* the same feed item (the Jina reader may have replaced its summary)
SameArticle(a, b) ==
    a.title = b.title /\ a.link = b.link /\ a.published = b.published

\* C15: the items a fetch returns and the items the news block renders are
\* never more than max_items (which is at least 1), and they are the first
\* items of the ranked list, in ranked order
C15_TopNTruncation ==
    \A k \in NewsRuns :
        LET e == news_log[k]
            n == IF Len(e.ranked) < news_in.max_items
                 THEN Len(e.ranked) ELSE news_in.max_items
        IN  /\ news_in.max_items >= 1
            /\ Len(e.selected) = n
            /\ \A i \in DOMAIN e.selected : SameArticle(e.selected[i], e.ranked[i])
            /\ Len(e.rendered.items) <= news_in.max_items
            /\ e.rendered.items = e.selected

\* two items were ranked and max_items = 1 let only the first through
C15_Witness ==
    \E k \in NewsRuns :
        /\ news_in.max_items = 1
        /\ Len(news_log[k].ranked) = 2
        /\ Len(news_log[k].selected) = 1
        /\ SameArticle(news_log[k].selected[1], news_log[k].ranked[1])
        /\ news_log[k].rendered.kind = "items"
        /\ Len(news_log[k].rendered.items) = 1

-----------------------------------------------------------------------------
(* Intel aggregation: properties of SpecIntel                              *)

IntelDone == intel_log # <<>>

\* the sources that returned a text, in the order financial, sentiment, news
RECURSIVE Contributors(_)
Contributors(i) ==
    IF i > Len(IntelSources) THEN <<>>
    ELSE (IF intel_in[IntelSources[i]] = "text" THEN <<IntelSources[i]>> ELSE <<>>)
         \o Contributors(i + 1)

\* C16: the financial, sentiment and news sources are called independently:
\* all three are called whatever the others did, an exception counts as an
\* empty contribution, the blocks of the contributing sources stand in the
\* order financial, sentiment, news, and the aggregation does not raise
C16_SourcesIndependent ==
    IntelDone =>
        LET r == intel_log[1]
        IN  /\ r.calls = IntelSources
            /\ ~r.raised
            /\ SubSeq(r.blocks, 1, Len(Contributors(1))) = Contributors(1)
            /\ Contributors(1) # <<>> => r.blocks = Contributors(1)

\* the financial source raised, the sentiment source gave nothing, and the
\* news block was still built and returned
C16_Witness ==
    /\ IntelDone
    /\ intel_in.finance = "raise" /\ intel_in.sentiment = "empty"
    /\ intel_in.news = "text"
    /\ intel_log[1].calls = IntelSources
    /\ intel_log[1].blocks = <<"news">>
    /\ intel_log[1].ret = "text"

\* the dimensions whose response is successful and has results
RECURSIVE Hits(_)
Hits(d) ==
    IF d > Len(Dimensions) THEN <<>>
    ELSE (IF intel_in.responses[d] = "hit" THEN <<Dimensions[d]>> ELSE <<>>)
         \o Hits(d + 1)

-----------------------------------------------------------------------------
(* StockAnalysisPipeline._send_notifications: the aggregate dashboard is    *)
(* generated, saved and pushed over the notifier's channels                 *)

\* the longest channel list the model follows
MaxChannels == 3

\* the NotificationChannel members _send_notifications has a sender for, in
\* the order get_available_channels is taken to list them
AllChannels == <<"FEISHU", "WECHAT", "TELEGRAM", "EMAIL", "CUSTOM", "PUSHPLUS", "SERVERCHAN3", "DISCORD", "PUSHOVER", "ASTRBOT">>

\* the sub-lists of s[i..] with at most n elements
RECURSIVE SubListsFrom(_, _, _)
SubListsFrom(s, i, n) ==
    IF i > Len(s) \/ n = 0 THEN {<<>>}
    ELSE SubListsFrom(s, i + 1, n)
         \cup {<<s[i]>> \o t : t \in SubListsFrom(s, i + 1, n - 1)}

ChannelLists == SubListsFrom(AllChannels, 1, MaxChannels)

InList(x, s) == \E i \in DOMAIN s : s[i] = x

\* lines 789-795: WECHAT gets generate_wechat_dashboard(results), once
WechatSend(channels, sends) ==
    IF InList("WECHAT", channels)
    THEN [attempts |-> <<[to |-> "WECHAT", content |-> "wechat_dashboard"]>>,
          success |-> sends["WECHAT"]]
    ELSE [attempts |-> <<>>, success |-> FALSE]

RECURSIVE NonWechatLoopShortCircuit(_, _, _, _)
NonWechatLoopShortCircuit(channels, i, sends, acc) ==
    IF i > Len(channels) THEN acc
    ELSE IF channels[i] = "WECHAT" \/ acc.success
    THEN NonWechatLoopShortCircuit(channels, i + 1, sends, acc)
    ELSE NonWechatLoopShortCircuit(channels, i + 1, sends,
             [attempts |-> Append(acc.attempts,
                                  [to |-> channels[i], content |-> "report"]),
              success |-> sends[channels[i]]])

\* lines 798-821: every other channel gets the report, in the order of the
\* list; non_wechat_success = send_to_x(report) or non_wechat_success
RECURSIVE NonWechatLoop(_, _, _, _)
NonWechatLoop(channels, i, sends, acc) ==
    IF i > Len(channels) THEN acc
    ELSE IF channels[i] = "WECHAT"
    THEN NonWechatLoop(channels, i + 1, sends, acc)
    ELSE NonWechatLoop(channels, i + 1, sends,
             [attempts |-> Append(acc.attempts,
                                  [to |-> channels[i], content |-> "report"]),
              success |-> sends[channels[i]] \/ acc.success])

NoPush == [saved |-> FALSE, attempts |-> <<>>, outcome |-> "none", raised |-> FALSE]

\* lines 785-829: the push over the channels, after the report was saved
PushSection(in, w, o) ==
    [saved |-> TRUE,
     attempts |-> <<[to |-> "context", content |-> "report"]>>
                     \o w.attempts \o o.attempts,
     outcome |-> IF w.success \/ o.success \/ in.context_ok
                 THEN "success" ELSE "failure",
     raised |-> FALSE]

\* lines 771-829, the body of the try block
SendBody(in) ==
    IF in.report = "raise" THEN [NoPush EXCEPT !.raised = TRUE]
    ELSE IF in.skip_push THEN [NoPush EXCEPT !.saved = TRUE, !.outcome = "skipped"]
    ELSE IF ~in.available THEN [NoPush EXCEPT !.saved = TRUE, !.outcome = "unavailable"]
    ELSE PushSection(in, WechatSend(in.channels, in.sends),
                     NonWechatLoop(in.channels, 1, in.sends,
                                   [attempts |-> <<>>, success |-> FALSE]))

\* lines 831-832: except Exception: logged, the call returns
Swallow(body) == IF body.raised THEN [body EXCEPT !.raised = FALSE, !.outcome = "error"] ELSE body

\* _send_notifications(results, skip_push)
_send_notifications(in) == Swallow(SendBody(in))

AfterSend(res, n) ==
    [notify |-> n, returned |-> IF n.raised THEN "exception" ELSE res]

\* run(), lines 750-758: the call of _send_notifications, then return results
RunTail(in) == AfterSend(in.results, _send_notifications(in))

Elems(s) == {s[i] : i \in DOMAIN s}

\* what the notifier does: report generation and saving return or raise,
\* is_available, the channel list, and what send_to_context and each listed
\* channel's sender return
PushInputs ==
    {[results |-> r, skip_push |-> sk, report |-> rep, available |-> av,
      channels |-> cs[1], context_ok |-> cx, sends |-> cs[2]] :
        r \in {<<1>>, <<2, 1>>}, sk \in BOOLEAN, rep \in {"ok", "raise"},
        av \in BOOLEAN, cx \in BOOLEAN,
        cs \in UNION {{<<chs, sd>> : sd \in [Elems(chs) -> BOOLEAN]} :
                         chs \in ChannelLists}}

PushCall ==
    /\ push_log = <<>>
    /\ push_log' = <<RunTail(push_in)>>
    /\ UNCHANGED <<push_in, symVars, finVars, sentVars, restVars, newsVars, intelVars, routeVars,
                   raceVars, refreshVars, runVars>>

InitPush ==
    /\ push_in \in PushInputs
    /\ push_log = <<>>
    /\ SymIdle /\ FinIdle /\ SentIdle /\ RestIdle /\ NewsIdle /\ IntelIdle /\ RouteInit /\ RaceIdle /\ RefreshIdle /\ RunIdle

NextPush == PushCall

SpecPush == InitPush /\ [][NextPush]_vars

-----------------------------------------------------------------------------
(* One symbol's task, call by call: process_single_stock and the           *)
(* analyze_stock it calls.  Each action is one call of a collaborator (or   *)
(* one try block) together with the code up to the next one.               *)

\* the calls of a task, in the order the code makes them
TaskSteps == <<"refresh", "realtime", "chip", "trend", "intel", "context", "analyze", "save", "notify">>

\* the locals of the task: whether the refresh succeeded, what the three
\* enrichment try blocks did and left in realtime_quote / chip_data /
\* trend_result, what get_analysis_context gave, the keys of
\* enhanced_context, the AnalysisResult, what its save did, the push
SymStart ==
    [pc |-> "refresh", trace |-> <<>>, refresh_ok |-> FALSE,
     realtime |-> "unused", chip |-> "unused", trend |-> "unused",
     realtime_quote |-> FALSE, chip_data |-> FALSE, trend_result |-> FALSE,
     history |-> "unused", enhanced |-> {}, result |-> FALSE, save |-> "unused",
     push |-> "none",
     returned |-> "pending"]

SymDb == IF sym_in.has_today THEN {Symbols[1]} ELSE {}

\* process_single_stock, lines 620-623 (and analyze_stock, lines 297-300):
\* an exception ends the task with None
ReturnNone(st) == [st EXCEPT !.pc = "returned", !.result = FALSE, !.returned = "none"]

ReturnResult(st) ==
    [st EXCEPT !.pc = "returned", !.returned = IF st.result THEN "result" ELSE "none"]

Did(st, step) == [st EXCEPT !.trace = Append(st.trace, step)]

AfterRefreshFatal(ok, skip_analysis) ==
    IF skip_analysis \/ ~ok THEN "returned" ELSE "realtime"

\* process_single_stock, lines 581-590: a failed refresh is logged; only
\* skip_analysis ends the task here
AfterRefresh(ok, skip_analysis) == IF skip_analysis THEN "returned" ELSE "realtime"

\* Step 1 of process_single_stock: fetch_and_save_stock_data(code)
SymRefresh(up) ==
    /\ sym.pc = "refresh"
    /\ sym_in.has_today => up = "empty"
    /\ LET f == fetch_and_save_stock_data(Symbols[1], FALSE, up, SymDb)
           st == [Did(sym, "refresh") EXCEPT !.refresh_ok = f.ok]
       IN  sym' = IF AfterRefresh(f.ok, sym_in.skip_analysis) = "returned"
                  THEN ReturnNone(st)
                  ELSE [st EXCEPT !.pc = "realtime"]
    /\ UNCHANGED <<sym_in, pushVars, finVars, sentVars, restVars, newsVars, intelVars, routeVars,
                   raceVars, refreshVars, runVars>>

AfterEnrichPropagate(outcome, next) == IF outcome = "raise" THEN "returned" ELSE next

\* analyze_stock, lines 185-200, 208-216, 220-232: each enrichment has its own
\* try/except; whatever it did, the next step follows
AfterEnrich(outcome, next) == next

EnrichOutcomes == {"ok", "none", "raise"}

\* analyze_stock Step 1: get_realtime_quote returns a quote, returns nothing
\* or raises
SymRealtime(o) ==
    /\ sym.pc = "realtime"
    /\ LET st == [Did(sym, "realtime") EXCEPT !.realtime = o,
                                               !.realtime_quote = (o = "ok")]
       IN  sym' = IF AfterEnrich(o, "chip") = "returned" THEN ReturnNone(st)
                  ELSE [st EXCEPT !.pc = "chip"]
    /\ UNCHANGED <<sym_in, pushVars, finVars, sentVars, restVars, newsVars, intelVars, routeVars,
                   raceVars, refreshVars, runVars>>

\* analyze_stock Step 2: get_chip_distribution
SymChip(o) ==
    /\ sym.pc = "chip"
    /\ LET st == [Did(sym, "chip") EXCEPT !.chip = o, !.chip_data = (o = "ok")]
       IN  sym' = IF AfterEnrich(o, "trend") = "returned" THEN ReturnNone(st)
                  ELSE [st EXCEPT !.pc = "trend"]
    /\ UNCHANGED <<sym_in, pushVars, finVars, sentVars, restVars, newsVars, intelVars, routeVars,
                   raceVars, refreshVars, runVars>>

\* analyze_stock Step 3: get_analysis_context and trend_analyzer.analyze give
\* a trend result, or there is no raw data to analyse, or one of them raises
SymTrend(o) ==
    /\ sym.pc = "trend"
    /\ LET st == [Did(sym, "trend") EXCEPT !.trend = o, !.trend_result = (o = "ok")]
       IN  sym' = IF AfterEnrich(o, "intel") = "returned" THEN ReturnNone(st)
                  ELSE [st EXCEPT !.pc = "intel"]
    /\ UNCHANGED <<sym_in, pushVars, finVars, sentVars, restVars, newsVars, intelVars, routeVars,
                   raceVars, refreshVars, runVars>>

\* analyze_stock Step 4: _build_intel_context returns a text or None, or
\* raises (out of its fallback search or its persistence)
SymIntel(o) ==
    /\ sym.pc = "intel"
    /\ sym' = IF o = "raise" THEN ReturnNone(Did(sym, "intel"))
              ELSE [Did(sym, "intel") EXCEPT !.pc = "context"]
    /\ UNCHANGED <<sym_in, pushVars, finVars, sentVars, restVars, newsVars, intelVars, routeVars,
                   raceVars, refreshVars, runVars>>

\* _enhance_context: the keys it adds to the copy of the context
_enhance_context(context_keys, realtime_quote, chip_data, trend_result) ==
    context_keys \cup {"stock_name"}
        \cup (IF realtime_quote THEN {"realtime"} ELSE {})
        \cup (IF chip_data THEN {"chip"} ELSE {})
        \cup (IF trend_result THEN {"trend_analysis"} ELSE {})

\* analyze_stock, lines 238-250: the context of the database, or the
\* stand-in that is flagged data_missing when the database has none
ContextKeys(history) ==
    IF history = "none"
    THEN {"code", "stock_name", "date", "data_missing", "today", "yesterday"}
    ELSE {"code", "raw_data"}

\* analyze_stock Steps 5 and 6: get_analysis_context returns a context or
\* None, or raises; then _enhance_context
SymContext(o) ==
    /\ sym.pc = "context"
    /\ sym' = IF o = "raise"
              THEN ReturnNone([Did(sym, "context") EXCEPT !.history = o])
              ELSE [Did(sym, "context") EXCEPT
                       !.history = o,
                       !.enhanced = _enhance_context(ContextKeys(o), sym.realtime_quote,
                                                     sym.chip_data, sym.trend_result),
                       !.pc = "analyze"]
    /\ UNCHANGED <<sym_in, pushVars, finVars, sentVars, restVars, newsVars, intelVars, routeVars,
                   raceVars, refreshVars, runVars>>

NotifyGuardNoResult(result, single_stock_notify) == single_stock_notify

\* process_single_stock, lines 592 and 599: if result: ... if single_stock_notify
NotifyGuard(result, single_stock_notify) == result /\ single_stock_notify

\* analyze_stock returned to process_single_stock (lines 590-618)
AfterAnalyzeStock(st) ==
    IF NotifyGuard(st.result, sym_in.single_stock_notify)
    THEN [st EXCEPT !.pc = "notify"]
    ELSE ReturnResult(st)

\* analyze_stock Step 7: analyzer.analyze(enhanced_context, news_context)
SymAnalyze(o) ==
    /\ sym.pc = "analyze"
    /\ sym' = IF o = "raise" THEN ReturnNone(Did(sym, "analyze"))
              ELSE IF o = "none" THEN AfterAnalyzeStock(Did(sym, "analyze"))
              ELSE [Did(sym, "analyze") EXCEPT !.result = TRUE, !.pc = "save"]
    /\ UNCHANGED <<sym_in, pushVars, finVars, sentVars, restVars, newsVars, intelVars, routeVars,
                   raceVars, refreshVars, runVars>>

\* analyze_stock Step 8: save_analysis_history, in its own try/except
SymSave(o) ==
    /\ sym.pc = "save"
    /\ sym' = AfterAnalyzeStock([Did(sym, "save") EXCEPT !.save = o])
    /\ UNCHANGED <<sym_in, pushVars, finVars, sentVars, restVars, newsVars, intelVars, routeVars,
                   raceVars, refreshVars, runVars>>

NotifyOutcomes == {"sent", "failed", "send_raise", "gen_raise", "unavailable", "avail_raise"}

\* process_single_stock, lines 599-616: is_available(), the report, send
SymNotify(o) ==
    /\ sym.pc = "notify"
    /\ sym' = IF o = "avail_raise" THEN ReturnNone(sym)
              ELSE IF o \in {"unavailable", "gen_raise"} THEN ReturnResult(sym)
              ELSE ReturnResult([Did(sym, "notify") EXCEPT
                                    !.push = IF o = "sent" THEN "sent" ELSE "failed"])
    /\ UNCHANGED <<sym_in, pushVars, finVars, sentVars, restVars, newsVars, intelVars, routeVars,
                   raceVars, refreshVars, runVars>>

InitTask ==
    /\ sym_in \in [skip_analysis : BOOLEAN, single_stock_notify : BOOLEAN,
                   has_today : BOOLEAN]
    /\ sym = SymStart
    /\ PushIdle /\ FinIdle /\ SentIdle /\ RestIdle /\ NewsIdle /\ IntelIdle /\ RouteInit /\ RaceIdle /\ RefreshIdle /\ RunIdle

NextTask ==
    \/ \E up \in Upstreams : SymRefresh(up)
    \/ \E o \in EnrichOutcomes : SymRealtime(o)
    \/ \E o \in EnrichOutcomes : SymChip(o)
    \/ \E o \in EnrichOutcomes : SymTrend(o)
    \/ \E o \in {"text", "none", "raise"} : SymIntel(o)
    \/ \E o \in {"context", "none", "raise"} : SymContext(o)
    \/ \E o \in {"result", "none", "raise"} : SymAnalyze(o)
    \/ \E o \in {"ok", "raise"} : SymSave(o)
    \/ \E o \in NotifyOutcomes : SymNotify(o)

SpecTask == InitTask /\ [][NextTask]_vars

-----------------------------------------------------------------------------
(* FinanceIntelService: the quarter-end dates and the lookup of the latest  *)
(* quarter that has rows for the symbol (finance_service.py).  A date is    *)
(* <<year, month, day>>; a date string is the tuple of its characters.      *)

\* the largest limit / finance_max_quarters SpecQuarter follows
MaxLimit == 6

\* the years datetime.now() is drawn from
FirstYear == 2024

LastYear == 2025

IsLeap(y) == (y % 4 = 0 /\ y % 100 # 0) \/ y % 400 = 0

DaysIn(y, m) ==
    IF m = 2 THEN (IF IsLeap(y) THEN 29 ELSE 28)
    ELSE IF m \in {4, 6, 9, 11} THEN 30 ELSE 31

\* datetime.now().date(): the first, the middle and the last two days of
\* every month of the years
Todays ==
    {<<y, m, d>> : y \in FirstYear..LastYear, m \in 1..12, d \in {1, 15, 29, 30, 31}}

ValidDate(dt) == dt[3] <= DaysIn(dt[1], dt[2])

DateLT(a, b) ==
    \/ a[1] < b[1]
    \/ a[1] = b[1] /\ a[2] < b[2]
    \/ a[1] = b[1] /\ a[2] = b[2] /\ a[3] < b[3]

\* date.__le__
DateLE(a, b) == a = b \/ DateLT(a, b)

DigitChars == <<"0", "1", "2", "3", "4", "5", "6", "7", "8", "9">>

Digit(n) == DigitChars[n + 1]

\* dt.strftime("%Y-%m-%d")
strftime(dt) ==
    <<Digit(dt[1] \div 1000), Digit((dt[1] \div 100) % 10), Digit((dt[1] \div 10) % 10),
      Digit(dt[1] % 10), "-", Digit(dt[2] \div 10), Digit(dt[2] % 10), "-",
      Digit(dt[3] \div 10), Digit(dt[3] % 10)>>

\* line 119, reversed(quarter_ends)
reversed_quarter_ends == <<<<12, 31>>, <<9, 30>>, <<6, 30>>, <<3, 31>>>>

BeforeToday(dt, cur) == DateLT(dt, cur)

\* line 127: if dt <= today
NotAfterToday(dt, cur) == DateLE(dt, cur)

\* lines 125-130: the for loop over the quarter ends of one year
RECURSIVE QuarterFor(_, _, _, _, _)
QuarterFor(dates, year, k, limit, cur) ==
    IF k > Len(reversed_quarter_ends) THEN dates
    ELSE LET dt == <<year, reversed_quarter_ends[k][1], reversed_quarter_ends[k][2]>>
             appended == IF NotAfterToday(dt, cur) THEN Append(dates, strftime(dt)) ELSE dates
         IN  IF Len(appended) >= limit THEN appended
             ELSE QuarterFor(appended, year, k + 1, limit, cur)

\* lines 124-131: the while loop; rounds counts its iterations
RECURSIVE QuarterWhile(_, _, _, _, _)
QuarterWhile(dates, year, rounds, limit, cur) ==
    IF Len(dates) < limit
    THEN QuarterWhile(QuarterFor(dates, year, 1, limit, cur), year - 1, rounds + 1,
                      limit, cur)
    ELSE [dates |-> dates, rounds |-> rounds]

\* _recent_quarter_dates(limit) on the day cur
_recent_quarter_dates(limit, cur) == QuarterWhile(<<>>, cur[1], 0, limit, cur)

\* __init__, line 31: self.max_quarters = max(1, int(finance_max_quarters))
MaxQuartersOf(finance_max_quarters) ==
    IF finance_max_quarters < 1 THEN 1 ELSE finance_max_quarters

QuarterCall ==
    /\ fin_log = <<>>
    /\ fin_log' = <<_recent_quarter_dates(fin_in.limit, fin_in.cur)>>
    /\ UNCHANGED <<fin_in, pushVars, symVars, sentVars, restVars, newsVars, intelVars, routeVars,
                   raceVars, refreshVars, runVars>>

InitQuarter ==
    /\ fin_in \in [cur : {dt \in Todays : ValidDate(dt)},
                   limit : {MaxQuartersOf(n) : n \in 0..MaxLimit}]
    /\ fin_log = <<>>
    /\ PushIdle /\ SymIdle /\ SentIdle /\ RestIdle /\ NewsIdle /\ IntelIdle /\ RouteInit /\ RaceIdle
    /\ RefreshIdle /\ RunIdle

NextQuarter == QuarterCall

SpecQuarter == InitQuarter /\ [][NextQuarter]_vars

-----------------------------------------------------------------------------
(* FinanceIntelService._fetch_latest_by_dates: the newest quarter whose     *)
(* akshare frame has rows for the symbol.  A code is the tuple of its       *)
(* characters; a frame is its columns and its rows, a row its code cells.   *)

\* how many quarters SpecFinance follows
MaxQuarters == 3

\* line 138: "".join(ch for ch in text if ch.isdigit())
Digits(text) == SelectSeq(text, LAMBDA ch : \E n \in 0..9 : Digit(n) = ch)

RECURSIVE ZFill(_, _)
ZFill(text, width) == IF Len(text) >= width THEN text ELSE ZFill(<<"0">> \o text, width)

\* _norm_code(raw): the last six digits, or the digits zero-filled to six
_norm_code(raw) ==
    IF Len(Digits(raw)) >= 6
    THEN SubSeq(Digits(raw), Len(Digits(raw)) - 5, Len(Digits(raw)))
    ELSE ZFill(Digits(raw), 6)

\* line 144 (the Chinese column names are transliterated): gupiaodaima,
\* daima, zhengquandaima
code_cols == <<"gupiaodaima", "daima", "zhengquandaima", "gupiaodaima", "symbol", "code", "SECUCODE", "SECURITY_CODE">>

\* df[mask]: the rows whose cell in column col normalises to the target
HitRows(df, col, target) ==
    SelectSeq(df.rows, LAMBDA r : _norm_code(r.cells[col]) = target)

\* lines 149-156: the first code column of the frame that has a hit
RECURSIVE FirstHitFrame(_, _, _)
FirstHitFrame(df, k, target) ==
    IF k > Len(code_cols) THEN <<>>
    ELSE IF code_cols[k] \in df.columns /\ HitRows(df, code_cols[k], target) # <<>>
    THEN HitRows(df, code_cols[k], target)
    ELSE FirstHitFrame(df, k + 1, target)

\* line 162: records[:3]
KeepRecords(records) == SubSeq(records, 1, IF Len(records) < 3 THEN Len(records) ELSE 3)

\* _filter_rows_by_code(df, stock_code)
_filter_rows_by_code(df, stock_code) ==
    KeepRecords(FirstHitFrame(df, 1, _norm_code(stock_code)))

\* line 96: quarter_date.replace("-", "")
DateToken(quarter_date) == SelectSeq(quarter_date, LAMBDA ch : ch # "-")

NeverStops(rows) == FALSE

\* line 107: if rows: return rows, quarter_date
StopsHere(rows) == rows # <<>>

\* lines 97-101: func(date=date_token), and after a TypeError func(date_token)
Queried(queries, token, answer) ==
    IF answer.kw = "typeerror"
    THEN queries \o <<[date |-> token, how |-> "keyword"],
                      [date |-> token, how |-> "positional"]>>
    ELSE Append(queries, [date |-> token, how |-> "keyword"])

\* lines 103-107 for one answer: the rows kept, <<>> when the query raised,
\* returned nothing or has no row of the symbol
RowsOf(answer, stock_code) ==
    IF answer.res = "frame" THEN _filter_rows_by_code(answer.df, stock_code) ELSE <<>>

\* the as-of date None (a date string is never empty)
NoAsOf == <<>>

\* lines 95-114: the loop over the quarter dates
RECURSIVE FetchLoop(_, _, _, _, _)
FetchLoop(dates, k, answers, stock_code, queries) ==
    IF k > Len(dates) THEN [rows |-> <<>>, asof |-> NoAsOf, queries |-> queries]
    ELSE IF StopsHere(RowsOf(answers[k], stock_code))
    THEN [rows |-> RowsOf(answers[k], stock_code), asof |-> dates[k],
          queries |-> Queried(queries, DateToken(dates[k]), answers[k])]
    ELSE FetchLoop(dates, k + 1, answers, stock_code,
                   Queried(queries, DateToken(dates[k]), answers[k]))

\* _fetch_latest_by_dates(func_name, stock_code); akshare: the import works
\* ("ok"), fails, or the module has no such function
_fetch_latest_by_dates(akshare, answers, stock_code, max_quarters, cur) ==
    IF akshare # "ok" THEN [rows |-> <<>>, asof |-> NoAsOf, queries |-> <<>>]
    ELSE FetchLoop(_recent_quarter_dates(max_quarters, cur).dates, 1, answers,
                   stock_code, <<>>)

\* build_finance_context, lines 51-53
Datasets == <<"stock_yjyg_em", "stock_yjkb_em", "stock_yjbb_em">>

Code600519 == <<"6", "0", "0", "5", "1", "9">>

FinRow(id, cells) == [id |-> id, cells |-> cells]

Frame(columns, rows) == [kw |-> "ok", res |-> "frame", df |-> [columns |-> columns, rows |-> rows]]

NoFrame(kw, res) == [kw |-> kw, res |-> res, df |-> <<>>]

OtherRow(id) == FinRow(id, [c \in {"gupiaodaima"} |-> <<"0", "0", "0", "0", "0", "1">>])

HitRow(id) == FinRow(id, [c \in {"gupiaodaima"} |-> Code600519])

\* what one query of a dataset can give: an exception, None, an empty frame,
\* a frame without the symbol, frames with one and with four rows of it
\* (also written SH600519, also in a later code column only, also after the
\* TypeError of the keyword call), a frame whose code has five digits only
Answers ==
    {NoFrame("ok", "raise"), NoFrame("ok", "none"), NoFrame("ok", "empty"),
     NoFrame("typeerror", "raise"),
     Frame({"gupiaodaima"}, <<OtherRow(1), OtherRow(2)>>),
     Frame({"gupiaodaima"}, <<OtherRow(1), HitRow(2)>>),
     Frame({"gupiaodaima"}, <<HitRow(1), OtherRow(2), HitRow(3), HitRow(4), HitRow(5)>>),
     Frame({"SECUCODE"},
           <<FinRow(1, [c \in {"SECUCODE"} |-> <<"S", "H">> \o Code600519])>>),
     Frame({"gupiaodaima", "code"},
           <<FinRow(1, [c \in {"gupiaodaima", "code"} |->
                           IF c = "code" THEN Code600519 ELSE <<"-">>])>>),
     Frame({"symbol"}, <<FinRow(1, [c \in {"symbol"} |-> <<"0", "0", "5", "1", "9">>])>>),
     [kw |-> "typeerror", res |-> "frame",
      df |-> [columns |-> {"gupiaodaima"}, rows |-> <<HitRow(7)>>]]}

NothingAt == [k \in 1..MaxQuarters |-> NoFrame("ok", "none")]

HitAtFirst ==
    [k \in 1..MaxQuarters |-> IF k = 1 THEN Frame({"gupiaodaima"}, <<HitRow(9)>>)
                              ELSE NoFrame("ok", "raise")]

HitAtLast ==
    [k \in 1..MaxQuarters |-> IF k = MaxQuarters THEN Frame({"gupiaodaima"}, <<HitRow(8)>>)
                              ELSE NoFrame("ok", "raise")]

\* the answers of the second and the third dataset
OtherAnswerLists == {<<NothingAt, HitAtFirst>>, <<HitAtFirst, HitAtLast>>, <<HitAtLast, NothingAt>>}

FetchDataset(i) ==
    _fetch_latest_by_dates(fin_in.akshare, fin_in.answers[Datasets[i]], fin_in.stock_code,
                           fin_in.max_quarters, fin_in.cur)

\* build_finance_context, lines 51-53: the three lookups, one after another
FinanceCall ==
    /\ fin_log = <<>>
    /\ fin_log' = [i \in 1..Len(Datasets) |-> FetchDataset(i)]
    /\ UNCHANGED <<fin_in, pushVars, symVars, sentVars, restVars, newsVars, intelVars, routeVars,
                   raceVars, refreshVars, runVars>>

InitFinance ==
    /\ \E mq \in 1..MaxQuarters, first \in [1..MaxQuarters -> Answers],
          others \in OtherAnswerLists,
          ak \in {"ok", "import_error", "no_function"},
          cur \in {<<LastYear, 2, 15>>, <<LastYear, 6, 30>>} :
          /\ \A k \in 1..MaxQuarters : k > mq => first[k] = NoFrame("ok", "none")
          /\ ak # "ok" => (mq = 1 /\ first[1] = NoFrame("ok", "none"))
          /\ fin_in = [akshare |-> ak, max_quarters |-> mq, cur |-> cur,
                       stock_code |-> Code600519,
                       answers |-> [d \in {Datasets[i] : i \in 1..Len(Datasets)} |->
                                       IF d = Datasets[1] THEN first
                                       ELSE IF d = Datasets[2] THEN others[1]
                                       ELSE others[2]]]
    /\ fin_log = <<>>
    /\ PushIdle /\ SymIdle /\ SentIdle /\ RestIdle /\ NewsIdle /\ IntelIdle /\ RouteInit /\ RaceIdle
    /\ RefreshIdle /\ RunIdle

NextFinance == FinanceCall

SpecFinance == InitFinance /\ [][NextFinance]_vars

-----------------------------------------------------------------------------
(* Latest-quarter lookup: properties of SpecFinance                        *)

FinanceDone == fin_log # <<>> /\ "answers" \in DOMAIN fin_in

QuarterTokens == [k \in 1..fin_in.max_quarters |->
                     DateToken(_recent_quarter_dates(fin_in.max_quarters, fin_in.cur).dates[k])]

\* the query of a date came back with a frame that has a row of the symbol
\* in one of its code columns
HasSymbolRows(answer) ==
    /\ answer.res = "frame"
    /\ \E k \in DOMAIN answer.df.rows, c \in answer.df.columns :
          /\ \E j \in DOMAIN code_cols : code_cols[j] = c
          /\ _norm_code(answer.df.rows[k].cells[c]) = fin_in.stock_code

\* the dates of a dataset that have rows of the symbol
HitDates(ds) == {k \in 1..fin_in.max_quarters : HasSymbolRows(fin_in.answers[ds][k])}

\* how many dates the lookup of a dataset has to query
LastQueried(ds) == IF HitDates(ds) = {} THEN fin_in.max_quarters ELSE Min(HitDates(ds))

\* the dates a lookup queried, one entry per date
DatesQueried(i) ==
    SelectSeq(fin_log[i].queries,
              LAMBDA q : q.how = "keyword")

\* C28: for each of the three datasets, by its own answers alone, the quarter
\* dates are queried newest first, one after the other, up to the first date
\* whose data has rows of the symbol and no further; a date whose query
\* raises or returns no data (or no row of the symbol) is passed over and
\* the next one is tried; the result is the first three matching rows at most
\* and that date, or no row and no as-of date when no date matches
C28_StopsAtFirstHit ==
    (FinanceDone /\ fin_in.akshare = "ok") =>
        \A i \in 1..Len(Datasets) :
            LET ds == Datasets[i]
                n == LastQueried(ds)
            IN  /\ Len(DatesQueried(i)) = n
                /\ \A k \in 1..n : DatesQueried(i)[k].date = QuarterTokens[k]
                /\ \A k \in DOMAIN fin_log[i].queries :
                      fin_log[i].queries[k].how = "positional" =>
                          /\ k > 1
                          /\ fin_log[i].queries[k - 1] =
                                [date |-> fin_log[i].queries[k].date, how |-> "keyword"]
                /\ Len(fin_log[i].rows) <= 3
                /\ IF HitDates(ds) = {}
                   THEN fin_log[i].rows = <<>> /\ fin_log[i].asof = NoAsOf
                   ELSE /\ fin_log[i].rows # <<>>
                        /\ DateToken(fin_log[i].asof) = QuarterTokens[n]
                        /\ \A k \in DOMAIN fin_log[i].rows :
                              \E c \in fin_in.answers[ds][n].df.columns :
                                  _norm_code(fin_log[i].rows[k].cells[c]) = fin_in.stock_code
                        /\ \A k \in DOMAIN fin_log[i].rows :
                              \E j \in DOMAIN fin_in.answers[ds][n].df.rows :
                                  fin_in.answers[ds][n].df.rows[j] = fin_log[i].rows[k]

\* the newest date raised, the second has five rows of which four are the
\* symbol's: three are kept, the third date is not queried; the other two
\* datasets end elsewhere
C28_Witness ==
    /\ FinanceDone /\ fin_in.akshare = "ok" /\ fin_in.max_quarters = 3
    /\ fin_in.answers[Datasets[1]][1].res = "raise"
    /\ Len(fin_log[1].rows) = 3
    /\ <<fin_log[1].rows[1].id, fin_log[1].rows[2].id, fin_log[1].rows[3].id>> = <<1, 3, 4>>
    /\ Len(DatesQueried(1)) = 2
    /\ fin_log[2].asof # fin_log[1].asof
    /\ fin_log[3].asof = NoAsOf

-----------------------------------------------------------------------------
(* Quarter-end dates: properties of SpecQuarter                            *)

DigitVal(c) == CHOOSE n \in 0..9 : Digit(n) = c

\* the date a "YYYY-MM-DD" string names
ParseDate(str) ==
    <<DigitVal(str[1]) * 1000 + DigitVal(str[2]) * 100 + DigitVal(str[3]) * 10
          + DigitVal(str[4]),
      DigitVal(str[6]) * 10 + DigitVal(str[7]),
      DigitVal(str[9]) * 10 + DigitVal(str[10])>>

IsQuarterEnd(dt) == <<dt[2], dt[3]>> \in {<<3, 31>>, <<6, 30>>, <<9, 30>>, <<12, 31>>}

\* the quarter end before a quarter end
PrevQuarterEnd(dt) ==
    IF dt[2] = 3 THEN <<dt[1] - 1, 12, 31>>
    ELSE IF dt[2] = 6 THEN <<dt[1], 3, 31>>
    ELSE IF dt[2] = 9 THEN <<dt[1], 6, 30>>
    ELSE <<dt[1], 9, 30>>

\* the quarter end after a quarter end
NextQuarterEnd(dt) ==
    IF dt[2] = 3 THEN <<dt[1], 6, 30>>
    ELSE IF dt[2] = 6 THEN <<dt[1], 9, 30>>
    ELSE IF dt[2] = 9 THEN <<dt[1], 12, 31>>
    ELSE <<dt[1] + 1, 3, 31>>

QuarterDone == fin_log # <<>> /\ "limit" \in DOMAIN fin_in

\* C27: for every current date and every limit >= 1 the quarter-end
\* generation ends (after at most limit \div 4 + 2 rounds of its loop) and
\* returns exactly limit well-formed date strings, each the last day of
\* Mar/Jun/Sep/Dec, none later than today, the first the latest quarter end
\* not after today, each next one the quarter end just before, so strictly
\* descending with no gap; with limit = 2 in the first quarter of 2025 (before
\* its last day) the result is 2024-12-31, 2024-09-30
C27_QuarterDates ==
    QuarterDone =>
        LET out == fin_log[1].dates
        IN  /\ Len(out) = fin_in.limit
            /\ fin_log[1].rounds <= fin_in.limit \div 4 + 2
            /\ \A i \in DOMAIN out :
                  /\ Len(out[i]) = 10 /\ out[i][5] = "-" /\ out[i][8] = "-"
                  /\ \A k \in {1, 2, 3, 4, 6, 7, 9, 10} :
                        \E n \in 0..9 : Digit(n) = out[i][k]
                  /\ IsQuarterEnd(ParseDate(out[i]))
                  /\ DateLE(ParseDate(out[i]), fin_in.cur)
                  /\ i > 1 => ParseDate(out[i]) = PrevQuarterEnd(ParseDate(out[i - 1]))
                  /\ i > 1 => DateLT(ParseDate(out[i]), ParseDate(out[i - 1]))
            /\ ~DateLE(NextQuarterEnd(ParseDate(out[1])), fin_in.cur)
            /\ (fin_in.limit = 2 /\ fin_in.cur[1] = 2025
                   /\ DateLT(fin_in.cur, <<2025, 3, 31>>)) =>
                  out = <<<<"2", "0", "2", "4", "-", "1", "2", "-", "3", "1">>,
                          <<"2", "0", "2", "4", "-", "0", "9", "-", "3", "0">>>>

\* today is a quarter end itself and the dates reach back over two year
\* boundaries
C27_Witness ==
    /\ QuarterDone
    /\ fin_in.cur = <<2025, 3, 31>> /\ fin_in.limit = 6
    /\ fin_log[1].dates[1] = strftime(<<2025, 3, 31>>)
    /\ fin_log[1].dates[6] = strftime(<<2023, 12, 31>>)

-----------------------------------------------------------------------------
(* One symbol's task: properties of SpecTask                               *)

Called(step) == \E k \in DOMAIN sym.trace : sym.trace[k] = step

SymReturned == sym.pc = "returned"

\* C24: a failed refresh (upstream data empty or unavailable, the fetcher or
\* the save raising) is not fatal: outside dry-run the task goes on into
\* analyze_stock exactly as after a successful refresh, and when the database
\* has no history context for the symbol either, the analyzer is called with
\* a context flagged data_missing
C24_RefreshFailureNotFatal ==
    /\ (Called("refresh") /\ ~sym.refresh_ok /\ ~sym_in.skip_analysis) =>
          /\ sym.pc = "returned" => Called("realtime")
          /\ sym.pc # "returned" => sym.pc \in {"realtime", "chip", "trend", "intel", "context", "analyze", "save", "notify"}
    /\ Called("analyze") =>
          /\ sym.history = "none" <=> "data_missing" \in sym.enhanced
          /\ sym.history \in {"none", "context"}
    /\ (sym.history = "none" /\ sym.pc \in {"analyze", "save", "notify"}) =>
          "data_missing" \in sym.enhanced

\* the refresh failed, the database had no context, and the analyzer was
\* called with the data_missing context and returned a result
C24_Witness ==
    /\ SymReturned /\ ~sym.refresh_ok /\ ~sym_in.has_today
    /\ sym.history = "none" /\ Called("analyze")
    /\ "data_missing" \in sym.enhanced
    /\ sym.result

EnrichKeys == {"realtime", "chip", "trend_analysis"}

EnrichOf(key) ==
    IF key = "realtime" THEN sym.realtime
    ELSE IF key = "chip" THEN sym.chip
    ELSE sym.trend

\* C25: the realtime, chip and trend enrichments are independently
\* best-effort: whichever of them raised or yielded nothing, the task goes on
\* (all three are tried, then the intel step), and once the enhanced context
\* is built each of the keys 'realtime', 'chip' and 'trend_analysis' is in
\* it iff its own enrichment yielded data; the analyzer is called with that
\* context
C25_EnrichmentBestEffort ==
    /\ Called("realtime") =>
          sym.pc \in {"chip", "trend", "intel", "context", "analyze", "save", "notify", "returned"}
    /\ (Called("realtime") /\ SymReturned) =>
          Called("chip") /\ Called("trend") /\ Called("intel")
    /\ Called("context") /\ sym.history # "raise" =>
          /\ \A key \in EnrichKeys :
                key \in sym.enhanced <=> EnrichOf(key) = "ok"
          /\ SymReturned => Called("analyze")
    /\ Called("analyze") =>
          \A key \in EnrichKeys : key \in sym.enhanced <=> EnrichOf(key) = "ok"

\* the realtime quote raised and the trend analysis had no data; the chip
\* distribution is in the context the analyzer was called with
C25_Witness ==
    /\ SymReturned /\ Called("analyze") /\ sym.result
    /\ sym.realtime = "raise" /\ sym.chip = "ok" /\ sym.trend = "none"
    /\ sym.enhanced \cap EnrichKeys = {"chip"}

\* C30: within a symbol's task the calls happen in the order refresh,
\* enrichment (realtime, chip, trend), intel aggregation, context, analyzer,
\* history persistence, per-symbol notification, each at most once and none
\* before the ones ahead of it: the analyzer is never called before the
\* refresh has ended, and a notification is sent at most once, only for a
\* symbol that produced a result and never before its persistence attempt
C30_StepOrder ==
    /\ Len(sym.trace) <= Len(TaskSteps)
    /\ \A k \in DOMAIN sym.trace : sym.trace[k] = TaskSteps[k]
    /\ Called("analyze") => sym.trace[1] = "refresh"
    /\ Called("notify") =>
          /\ sym.result /\ sym_in.single_stock_notify
          /\ Called("save") /\ sym.save # "unused"
          /\ sym.trace[Len(sym.trace)] = "notify"
    /\ sym.push # "none" => Called("notify")
    /\ sym_in.skip_analysis => Len(sym.trace) <= 1

\* a task that went through every step: the save raised and the report was
\* still sent afterwards
C30_Witness ==
    /\ SymReturned /\ sym.trace = TaskSteps
    /\ sym.save = "raise" /\ sym.push = "sent" /\ sym.returned = "result"

-----------------------------------------------------------------------------
(* Aggregate report delivery: properties of SpecPush                       *)

PushDone == push_log # <<>>

\* the push section of _send_notifications ran
PushRan == PushDone /\ push_log[1].notify.outcome \in {"success", "failure"}

AttemptsTo(c) ==
    {i \in DOMAIN push_log[1].notify.attempts : push_log[1].notify.attempts[i].to = c}

ContentFor(c) == IF c = "WECHAT" THEN "wechat_dashboard" ELSE "report"

-----------------------------------------------------------------------------
(* XueqiuSentimentService._fetch_sentiment: the DNS pre-flight, the warm-up *)
(* request, the search request and the posts taken from its answer         *)
(* (sentiment_service.py).  A text is a tuple of tokens as in the news     *)
(* model, an HTML tag is one token; a message is the tuple of the parts    *)
(* its f-string joins.                                                     *)

\* the longest list of posts in an answer
MaxRawPosts == 2

\* error=None
NoError == <<>>

SentimentResult(sample_count, highlights, kol_highlights, error) ==
    [sample_count |-> sample_count, highlights |-> highlights,
     kol_highlights |-> kol_highlights, error |-> error]

DnsPrefix == "DNS resolution failed (xueqiu.com): "

\* line 88
DnsMessage(e) == <<DnsPrefix, e, ", check the container's DNS / proxy settings">>

\* line 119
HttpMessage(status_code) == <<"HTTP ", status_code>>

\* line 146
TimeoutMessage(e) == <<"request timed out: ", e>>

\* line 150
ConnectionMessage(e) == <<"network connection failed (DNS / network unreachable?): ", e>>

\* str(e), line 155
StrOfException(e) == <<e>>

IsTag(c) == c \in {"<b>", "</b>", "<br/>"}

\* re.sub(r"<[^>]+>", "", text)
StripTags(text) == SelectSeq(text, LAMBDA c : ~IsTag(c))

\* re.sub(r"\s+", " ", text)
RECURSIVE CollapseSpace(_)
CollapseSpace(text) ==
    IF Len(text) < 2 THEN text
    ELSE IF IsSpace(text[1]) /\ IsSpace(text[2]) THEN CollapseSpace(Tail(text))
    ELSE <<Head(text)>> \o CollapseSpace(Tail(text))

\* item.get("text") or item.get("title") or "", then the two substitutions
_extract_text(item) ==
    Strip(CollapseSpace(StripTags(IF item.text # <<>> THEN item.text ELSE item.title)))

\* the user's screen_name, else the item's own author key
_extract_author(item) ==
    IF item.user.present THEN Strip(item.user.screen_name)
    ELSE IF item.author # <<>> THEN Strip(item.author)
    ELSE <<>>

\* lines 124-129: the items that have a text
RECURSIVE PostsOf(_)
PostsOf(raw_list) ==
    IF raw_list = <<>> THEN <<>>
    ELSE LET text == _extract_text(Head(raw_list))
         IN  (IF text # <<>>
              THEN <<[text |-> text, author |-> _extract_author(Head(raw_list))]>>
              ELSE <<>>) \o PostsOf(Tail(raw_list))

\* seq[:n]
Take(seq, n) == SubSeq(seq, 1, IF Len(seq) < n THEN Len(seq) ELSE n)

\* lines 135-141
RECURSIVE KolHighlights(_, _)
KolHighlights(posts, kol_users) ==
    IF posts = <<>> \/ kol_users = <<>> THEN <<>>
    ELSE (IF /\ Head(posts).author # <<>>
             /\ \E k \in DOMAIN kol_users : kol_users[k] = Lower(Head(posts).author)
          THEN <<(<<"@">> \o Head(posts).author \o <<": ">> \o Take(Head(posts).text, 120))>>
          ELSE <<>>) \o KolHighlights(Tail(posts), kol_users)

\* payload.get("list") or payload.get("statuses") or []
RawList(answer) ==
    IF ~answer.json THEN <<>>
    ELSE IF answer.list # <<>> THEN answer.list
    ELSE answer.statuses

\* lines 131-143
ResultOfPosts(posts, kol_users) ==
    IF posts = <<>> THEN SentimentResult(0, <<>>, <<>>, NoError)
    ELSE SentimentResult(Len(posts), [i \in DOMAIN Take(posts, 5) |-> posts[i].text],
                         KolHighlights(posts, kol_users), NoError)

\* lines 116-155: what the search request's outcome becomes
SearchResult(answer, kol_users) ==
    CASE answer.kind = "timeout" ->
            SentimentResult(0, <<>>, <<>>, TimeoutMessage(answer.e))
      [] answer.kind = "connection_error" ->
            SentimentResult(0, <<>>, <<>>, ConnectionMessage(answer.e))
      [] answer.kind = "raise" ->
            SentimentResult(0, <<>>, <<>>, StrOfException(answer.e))
      [] answer.kind = "response" /\ answer.status_code # 200 ->
            SentimentResult(0, <<>>, <<>>, HttpMessage(answer.status_code))
      [] answer.kind = "response" /\ answer.status_code = 200 /\ answer.bad_body ->
            SentimentResult(0, <<>>, <<>>, StrOfException("Expecting value"))
      [] OTHER -> ResultOfPosts(PostsOf(RawList(answer)), kol_users)

\* lines 93-99
Headers(in) == [user_agent |-> in.user_agent, cookie |-> in.cookie]

\* line 103
WarmupRequest(in) ==
    [url |-> "https://xueqiu.com/", headers |-> Headers(in), params |-> <<>>, timeout |-> 8]

\* lines 107-117
SearchRequest(in) ==
    [url |-> "https://xueqiu.com/query/v1/search/status.json", headers |-> Headers(in),
     params |-> [sortId |-> "1", q |-> Strip(in.stock_name \o <<" ">> \o in.stock_code),
                 count |-> in.max_posts, page |-> "1"],
     timeout |-> 10]

\* a failed warm-up ends the fetch (what the code does not do)
AfterWarmupAbort(in, warmup) ==
    IF warmup = "raise"
    THEN [returned |-> <<SentimentResult(0, <<>>, <<>>, StrOfException("warm-up failed"))>>,
          requests |-> <<WarmupRequest(in)>>]
    ELSE [returned |-> <<SearchResult(in.search, in.kol_users)>>,
          requests |-> <<WarmupRequest(in), SearchRequest(in)>>]

\* lines 102-117: whatever the warm-up did, the search request follows
AfterWarmup(in, warmup) ==
    [returned |-> <<SearchResult(in.search, in.kol_users)>>,
     requests |-> <<WarmupRequest(in), SearchRequest(in)>>]

\* lines 85-90: a gaierror is answered at once, any other exception of
\* getaddrinfo leaves the function (nothing is returned)
AfterPreflight(in, dns) ==
    CASE dns.kind = "gaierror" ->
            [returned |-> <<SentimentResult(0, <<>>, <<>>, DnsMessage(dns.e))>>,
             requests |-> <<>>]
      [] dns.kind = "raise" -> [returned |-> <<>>, requests |-> <<>>]
      [] OTHER -> AfterWarmup(in, in.warmup)

_fetch_sentiment(in) == AfterPreflight(in, in.dns)

\* __init__, line 41
MaxPostsOf(configured) == IF configured < 5 THEN 5 ELSE configured

\* __init__, lines 42-44
RECURSIVE KolUsersOf(_)
KolUsersOf(configured) ==
    IF configured = <<>> THEN <<>>
    ELSE (IF Strip(Head(configured)) # <<>> THEN <<Lower(Strip(Head(configured)))>> ELSE <<>>)
         \o KolUsersOf(Tail(configured))

NoUser == [present |-> FALSE, screen_name |-> <<>>]

RawItems ==
    { [text |-> <<"<b>", "A", "</b>", " ", " ", "Mt">>, title |-> <<>>,
       user |-> [present |-> TRUE, screen_name |-> <<"Mt", " ">>], author |-> <<>>],
      [text |-> <<>>, title |-> <<"sh">>, user |-> NoUser, author |-> <<"SH">>],
      [text |-> <<"<br/>", " ">>, title |-> <<"mt">>, user |-> NoUser, author |-> <<"mt">>],
      [text |-> <<"a">>, title |-> <<>>, user |-> NoUser, author |-> <<>>] }

RawLists == UNION { [1..n -> RawItems] : n \in 0..MaxRawPosts }

Response(status_code, json, bad_body, list, statuses) ==
    [kind |-> "response", status_code |-> status_code, json |-> json,
     bad_body |-> bad_body, list |-> list, statuses |-> statuses, e |-> ""]

Failure(kind, e) ==
    [kind |-> kind, status_code |-> 0, json |-> FALSE, bad_body |-> FALSE,
     list |-> <<>>, statuses |-> <<>>, e |-> e]

\* what the search request can come back with
SearchAnswers ==
    { Response(200, TRUE, FALSE, l, <<>>) : l \in RawLists }
    \cup { Response(200, TRUE, FALSE, <<>>, l) : l \in RawLists }
    \cup { Response(200, FALSE, FALSE, <<>>, <<>>), Response(200, TRUE, TRUE, <<>>, <<>>),
           Response(403, TRUE, FALSE, <<>>, <<>>), Response(500, FALSE, FALSE, <<>>, <<>>),
           Failure("timeout", "Read timed out"),
           Failure("connection_error", "Name or service not known"),
           Failure("raise", "Exceeded 30 redirects") }

\* what getaddrinfo can come back with
DnsAnswers ==
    { [kind |-> "ok", e |-> ""],
      [kind |-> "gaierror", e |-> "[Errno -2] Name or service not known"],
      [kind |-> "gaierror", e |-> "[Errno -3] Temporary failure in name resolution"],
      [kind |-> "raise", e |-> "[Errno 24] Too many open files"] }

SentimentCall ==
    /\ sent_in # <<>> /\ sent_log = <<>>
    /\ sent_log' = _fetch_sentiment(sent_in)
    /\ UNCHANGED <<sent_in, pushVars, symVars, finVars, restVars, newsVars, intelVars, routeVars,
                   raceVars, refreshVars, runVars>>

InitSentiment ==
    /\ \E dns \in DnsAnswers, warmup \in {"ok", "raise"}, search \in SearchAnswers,
          cookie \in {"", "xq_a_token=1"}, posts \in {1, 20},
          kol \in {<<>>, << <<" ", "Mt">>, <<" ">> >>} :
          /\ dns.kind # "ok" => (warmup = "ok" /\ search = Failure("timeout", "Read timed out"))
          /\ sent_in = [dns |-> dns, warmup |-> warmup, search |-> search,
                        cookie |-> cookie, user_agent |-> "Mozilla/5.0",
                        max_posts |-> MaxPostsOf(posts), kol_users |-> KolUsersOf(kol),
                        stock_code |-> <<"600519">>, stock_name |-> <<"Mt">>]
    /\ sent_log = <<>>
    /\ PushIdle /\ SymIdle /\ FinIdle /\ RestIdle /\ NewsIdle /\ IntelIdle /\ RouteInit /\ RaceIdle
    /\ RefreshIdle /\ RunIdle

NextSentiment == SentimentCall

SpecSentiment == InitSentiment /\ [][NextSentiment]_vars

-----------------------------------------------------------------------------
(* Sentiment fetch: properties of SpecSentiment                            *)

SentimentDone == sent_in # <<>> /\ sent_log # <<>>

\* the URLs requested, in order
UrlsRequested == [i \in DOMAIN sent_log.requests |-> sent_log.requests[i].url]

\* an error result that carries the DNS message was returned
DnsErrorReturned ==
    /\ sent_log.returned # <<>>
    /\ sent_log.returned[1].error # NoError
    /\ sent_log.returned[1].error[1] = DnsPrefix
    /\ sent_log.returned[1].sample_count = 0

\* C29: when the pre-flight getaddrinfo fails with a gaierror, the fetch
\* returns an error result with the DNS message, which no other outcome
\* produces, and issues neither the warm-up nor the search request; when the
\* pre-flight succeeds, the search request follows the warm-up request
\* whether the warm-up raised or not.
C29_DnsPreflight ==
    SentimentDone =>
        /\ sent_in.dns.kind = "gaierror" =>
              /\ sent_log.returned
                    = <<SentimentResult(0, <<>>, <<>>, DnsMessage(sent_in.dns.e))>>
              /\ sent_log.requests = <<>>
        /\ DnsErrorReturned <=> sent_in.dns.kind = "gaierror"
        /\ sent_in.dns.kind # "ok" => sent_log.requests = <<>>
        /\ sent_in.dns.kind = "ok" =>
              UrlsRequested = <<"https://xueqiu.com/",
                                "https://xueqiu.com/query/v1/search/status.json">>

\* the warm-up raised after a successful pre-flight, and the search that
\* followed it brought two posts, one of them by a followed user
C29_Witness ==
    /\ SentimentDone /\ sent_in.dns.kind = "ok" /\ sent_in.warmup = "raise"
    /\ Len(sent_log.requests) = 2
    /\ sent_log.returned[1].sample_count = 2
    /\ Len(sent_log.returned[1].kol_highlights) = 1

-----------------------------------------------------------------------------
(* StockAnalysisPipeline.run: termination.  The pool's threads and the     *)
(* thread that runs run() are scheduled, and a call of a collaborator      *)
(* returns or raises: each step that can be taken is taken in the end.     *)

RunFairness ==
    /\ WF_vars(\E prefetch \in {"ok", "raise"} : RunStart(prefetch))
    /\ WF_vars(Submit)
    /\ WF_vars(\E w \in DOMAIN worker : StartTask(w))
    /\ WF_vars(\E w \in DOMAIN worker, in \in TaskInputs : FinishTask(w, in))
    /\ WF_vars(\E i \in Tasks : Collect(i))
    /\ WF_vars(DelayEnd)
    /\ WF_vars(\E report \in {"ok", "raise"} : Finalize(report))

SpecLive == Spec /\ RunFairness

TaskFinished(i) == task[i].st \in {"returned", "collected"}

TaskPending(i) == task[i].st \in {"queued", "running"}

RunReturned == run_pc = "done"

\* C31: every task of a run is finished in the end and run returns in the
\* end; as long as a task is queued or is running on a pool thread, run has
\* not returned, the counts are not computed and the aggregate report is not
\* built.
C31_RunTerminates ==
    /\ <>RunReturned
    /\ \A i \in 1..MaxSymbols : (i \in Tasks /\ TaskPending(i)) ~> (i \in Tasks /\ TaskFinished(i))
    /\ [](\A i \in Tasks : (TaskPending(i) \/ worker # [w \in DOMAIN worker |-> 0]) =>
              /\ ~RunReturned
              /\ run_pc # "finalize"
              /\ agg = "none" /\ success_count = -1)

\* run has returned from a list of two symbols, one of which failed in its
\* analysis and one of which brought a result, and the report was built
C31_Witness ==
    /\ RunReturned /\ NumSymbols = 2
    /\ \A i \in Tasks : task[i].st = "collected"
    /\ \E i, j \in Tasks : task[i].analysis = "raise" /\ task[j].result
    /\ agg \in {"saved", "pushed"}

-----------------------------------------------------------------------------
(* StockAnalysisPipeline.run and _notify_progress: the progress messages   *)
(* of a run (SpecProgress).  The futures are taken as they complete, each  *)
(* with what future.result() does; the dashboard that follows the final    *)
(* message is the subject of Finalize and PushCall.                        *)

MaxProgSymbols == 2

\* what the notifier does during one _notify_progress: send_to_context
\* (ctx), is_available (avail) and send
ProgEnvs ==
    { [ctx |-> "ok",    avail |-> "yes",   send |-> "ok"],
      [ctx |-> "false", avail |-> "yes",   send |-> "ok"],
      [ctx |-> "false", avail |-> "no",    send |-> "ok"],
      [ctx |-> "raise", avail |-> "yes",   send |-> "ok"],
      [ctx |-> "false", avail |-> "yes",   send |-> "raise"] }

NotifierCall(call, outcome) == [call |-> call, outcome |-> outcome]

\* lines 848-850
ShouldBroadcast(in, force_broadcast) ==
    force_broadcast \/ in.progress_notify_broadcast \/ ~in.source_message

\* _notify_progress, lines 841-856: the calls of the notifier it makes; an
\* exception of one of them ends the function, which returns all the same
_notify_progress(in, env, force_broadcast) ==
    LET context == IF in.source_message
                   THEN <<NotifierCall("send_to_context", env.ctx)>> ELSE <<>>
    IN  IF in.source_message /\ env.ctx = "raise" THEN context
        ELSE IF ShouldBroadcast(in, force_broadcast)
        THEN context \o <<NotifierCall("send", env.send)>>
        ELSE IF env.ctx # "ok"
        THEN context \o <<NotifierCall("is_available", env.avail)>>
                     \o (IF env.avail = "yes" THEN <<NotifierCall("send", env.send)>>
                         ELSE <<>>)
        ELSE context

\* lines 836-837: nothing is sent when progress_notify_enabled is off
NotifyProgress(log, message, in, env) ==
    IF ~in.progress_notify_enabled THEN log
    ELSE Append(log, [message |-> message, calls |-> _notify_progress(in, env, FALSE)])

ProgMessage(kind, done, code, success, fail) ==
    [kind |-> kind, done |-> done, code |-> code, success |-> success, fail |-> fail]

LoopMessageOnlyOnSuccess(log, outcome, done, code, in, env) ==
    IF outcome = "result"
    THEN NotifyProgress(log, ProgMessage("done", done, code, -1, -1), in, env)
    ELSE log

\* lines 710-729: the message the loop sends for one future
LoopMessage(log, outcome, done, code, in, env) ==
    NotifyProgress(log,
                   ProgMessage(CASE outcome = "result" -> "done"
                                 [] outcome = "none" -> "no_result"
                                 [] OTHER -> "failed",
                               done, code, -1, -1),
                   in, env)

ProgCollected == {prog.order[k].i : k \in DOMAIN prog.order}

\* lines 655-683: an empty list returns at once; else the start message
ProgStart(env) ==
    /\ prog.pc = "start"
    /\ IF prog_in.n = 0
       THEN env = CHOOSE e \in ProgEnvs : TRUE
       ELSE (~prog_in.progress_notify_enabled => env = CHOOSE e \in ProgEnvs : TRUE)
    /\ prog' = IF prog_in.n = 0 THEN [prog EXCEPT !.pc = "done"]
               ELSE [prog EXCEPT !.pc = "collect",
                                 !.msgs = NotifyProgress(@, ProgMessage("start", 0, 0, -1, -1),
                                                         prog_in, env)]
    /\ UNCHANGED <<prog_in, jinaVars, blkVars, hookVars, baseVars>>

\* lines 703-729: as_completed yields the future of symbol i; outcome is
\* what future.result() does (a result, None, or an exception)
ProgCollect(i, outcome, env) ==
    /\ prog.pc = "collect"
    /\ i \in (1..prog_in.n) \ ProgCollected
    /\ prog_in.dry_run => outcome # "result"
    /\ ~prog_in.progress_notify_enabled => env = CHOOSE e \in ProgEnvs : TRUE
    /\ LET idx == Len(prog.order)
       IN  prog' = [prog EXCEPT
                      !.results = IF outcome = "result" THEN Append(@, i) ELSE @,
                      !.msgs = LoopMessage(@, outcome, idx + 1, i, prog_in, env),
                      !.order = Append(@, [i |-> i, outcome |-> outcome]),
                      !.pc = IF idx + 1 = prog_in.n THEN "finalize" ELSE "collect"]
    /\ UNCHANGED <<prog_in, jinaVars, blkVars, hookVars, baseVars>>

\* lines 731-747: the counts and the final message
ProgFinalize(env) ==
    /\ prog.pc = "finalize"
    /\ ~prog_in.progress_notify_enabled => env = CHOOSE e \in ProgEnvs : TRUE
    /\ LET success == IF prog_in.dry_run THEN prog_in.today_count ELSE Len(prog.results)
           fail    == prog_in.n - success
       IN  prog' = [prog EXCEPT
                      !.success_count = success, !.fail_count = fail,
                      !.msgs = NotifyProgress(@, ProgMessage("final", 0, 0, success, fail),
                                              prog_in, env),
                      !.pc = "done"]
    /\ UNCHANGED <<prog_in, jinaVars, blkVars, hookVars, baseVars>>

\* today_count: the symbols for which has_today_data holds when the dry run
\* counts them
InitProgress ==
    /\ \E n \in 0..MaxProgSymbols, dry \in BOOLEAN, enabled \in BOOLEAN,
          src \in BOOLEAN, bc \in BOOLEAN, tc \in 0..MaxProgSymbols :
          /\ tc <= n /\ (~dry => tc = 0)
          /\ ~enabled => (~src /\ ~bc)
          /\ prog_in = [n |-> n, dry_run |-> dry, progress_notify_enabled |-> enabled,
                        source_message |-> src, progress_notify_broadcast |-> bc,
                        today_count |-> tc]
    /\ prog = [pc |-> "start", results |-> <<>>, msgs |-> <<>>, order |-> <<>>,
               success_count |-> -1, fail_count |-> -1]
    /\ JinaIdle /\ BlkIdle /\ HookIdle /\ BaseIdle

NextProgress ==
    \/ \E env \in ProgEnvs : ProgStart(env)
    \/ \E i \in 1..MaxProgSymbols, outcome \in {"result", "none", "raise"}, env \in ProgEnvs :
          ProgCollect(i, outcome, env)
    \/ \E env \in ProgEnvs : ProgFinalize(env)

SpecProgress == InitProgress /\ [][NextProgress]_vars

-----------------------------------------------------------------------------
(* Progress messages: properties of SpecProgress                           *)

ProgDone == prog_in # <<>> /\ prog.pc = "done" /\ prog_in.n >= 1

\* a call of the notifier that did not deliver the message
FailedCall(c) == c.call # "is_available" /\ c.outcome # "ok"

\* the symbols whose future brought a result, in the order of completion
RECURSIVE WithResult(_)
WithResult(order) ==
    IF order = <<>> THEN <<>>
    ELSE (IF Head(order).outcome = "result" THEN <<Head(order).i>> ELSE <<>>)
         \o WithResult(Tail(order))

\* C32: with progress notification enabled, a finished run over n >= 1
\* symbols has sent, in this order, one start message, one message per
\* symbol (numbered 1..n, each for the symbol whose future completed then,
\* of the kind of its outcome) and one final message with the success and
\* failure counts, each handed to the notifier at least once; whatever the
\* notifier's calls did, the run ends, its results are the symbols that
\* brought a result and its counts are those of the results (or of today's
\* data in a dry run).  With progress notification off nothing is sent.
C32_ProgressMessages ==
    ProgDone =>
        /\ prog.results = WithResult(prog.order)
        /\ prog.success_count
             = (IF prog_in.dry_run THEN prog_in.today_count ELSE Len(WithResult(prog.order)))
        /\ prog.fail_count = prog_in.n - prog.success_count
        /\ ~prog_in.progress_notify_enabled => prog.msgs = <<>>
        /\ prog_in.progress_notify_enabled =>
              /\ Len(prog.msgs) = prog_in.n + 2
              /\ prog.msgs[1].message.kind = "start"
              /\ prog.msgs[prog_in.n + 2].message
                    = ProgMessage("final", 0, 0, prog.success_count, prog.fail_count)
              /\ \A k \in 1..prog_in.n :
                    /\ prog.msgs[k + 1].message.done = k
                    /\ prog.msgs[k + 1].message.code = prog.order[k].i
                    /\ prog.msgs[k + 1].message.kind
                          = (CASE prog.order[k].outcome = "result" -> "done"
                               [] prog.order[k].outcome = "none" -> "no_result"
                               [] OTHER -> "failed")
              /\ \A i \in 1..prog_in.n :
                    Cardinality({k \in 2..(prog_in.n + 1) : prog.msgs[k].message.code = i}) = 1
              /\ \A k \in DOMAIN prog.msgs : prog.msgs[k].calls # <<>>

\* a run over two symbols, one with a result and one whose future raised,
\* in which the start message and a symbol's message could not be sent
C32_Witness ==
    /\ ProgDone /\ prog_in.n = 2 /\ prog_in.progress_notify_enabled /\ ~prog_in.dry_run
    /\ \E c \in DOMAIN prog.msgs[1].calls : prog.msgs[1].calls[c].outcome = "raise"
    /\ \E c \in DOMAIN prog.msgs[2].calls : FailedCall(prog.msgs[2].calls[c])
    /\ prog.order[1].outcome = "raise" /\ prog.order[2].outcome = "result"
    /\ prog.success_count = 1 /\ prog.fail_count = 1

-----------------------------------------------------------------------------
(* RssNewsService._enhance_with_jina: the summary backfill of the selected  *)
(* items (SpecJina).  The items of the ranked list are objects, named by    *)
(* their position in it; the selected list holds the first of them and the  *)
(* backfill assigns to their summary attribute.  A summary and a reader     *)
(* text are tuples of characters.                                           *)

MaxJinaItems == 2

\* __init__, line 51
JinaMinSnippetLenOf(configured) == IF configured < 20 THEN 20 ELSE configured

Chars(n) == [i \in 1..n |-> "x"]

\* _fetch_jina_reader, lines 418-427: "" when the request raised or did not
\* answer 200, else the stripped text, its whitespace collapsed, cut at 1200
_fetch_jina_reader(answer) ==
    IF answer.kind = "raise" THEN <<>>
    ELSE IF answer.status_code # 200 THEN <<>>
    ELSE Take(CollapseSpace(Strip(answer.text)), 1200)

EligibleAnyLength(item, min_len) == item.link # <<>>

\* lines 404-407: the items the loop does not skip
Eligible(item, min_len) == ~(Len(item.summary) >= min_len) /\ item.link # <<>>

\* lines 410-411: if text: item.summary = text
Backfill(item, text) == IF text # <<>> THEN [item EXCEPT !.summary = text] ELSE item

\* lines 403-411: the loop over the selected objects; objs are the objects
\* by name, ids the names still to visit, requests the links handed to
\* _fetch_jina_reader so far
RECURSIVE EnhanceLoop(_, _, _, _, _)
EnhanceLoop(objs, ids, min_len, answers, requests) ==
    IF ids = <<>> THEN [objs |-> objs, requests |-> requests]
    ELSE IF ~Eligible(objs[Head(ids)], min_len)
    THEN EnhanceLoop(objs, Tail(ids), min_len, answers, requests)
    ELSE EnhanceLoop([objs EXCEPT ![Head(ids)] =
                         Backfill(@, _fetch_jina_reader(answers[Head(ids)]))],
                     Tail(ids), min_len, answers,
                     Append(requests, objs[Head(ids)].link))

\* lines 399-411
EnhanceWithJina(objs, ids, jina_enabled, min_len, answers) ==
    IF ~jina_enabled THEN [objs |-> objs, requests |-> <<>>]
    ELSE EnhanceLoop(objs, ids, min_len, answers, <<>>)

\* _fetch_news_items, lines 136-143: selected = ranked_items[: max_items]
SelectedIds(ranked, max_items) == TopN([i \in DOMAIN ranked |-> i], max_items)

JinaItems ==
    { NewsItem(<<"a">>, <<"https://", "cls.cn", "/1">>, 90, <<>>),
      NewsItem(<<"b">>, <<"https://", "cls.cn", "/2">>, 80, Chars(19)),
      NewsItem(<<"c">>, <<"https://", "cls.cn", "/3">>, NoDate, Chars(20)),
      NewsItem(<<"d">>, <<"https://", "cls.cn", "/4">>, 70, Chars(21)),
      NewsItem(<<"e">>, <<>>, 60, Chars(3)) }

JinaResponse(status_code, text) == [kind |-> "response", status_code |-> status_code, text |-> text]

\* what requests.get of the reader does for an item
JinaAnswers ==
    { [kind |-> "raise", status_code |-> 0, text |-> <<>>],
      JinaResponse(503, <<"b", "u", "s", "y">>),
      JinaResponse(200, <<>>),
      JinaResponse(200, <<" ", " ">>),
      JinaResponse(200, <<" ", "f", "u", "l", "l", " ", " ", "t", "e", "x", "t", " ">>),
      JinaResponse(200, Chars(19)) }

\* _fetch_news_items, lines 137-143, for a ranked list
JinaCall(answers) ==
    /\ jina_in # <<>> /\ jina_log = <<>>
    /\ \A i \in DOMAIN answers :
          (\/ i > Len(jina_in.ranked)
           \/ i > jina_in.max_items
           \/ ~jina_in.jina_enabled
           \/ jina_in.ranked[i].link = <<>>) => answers[i] = JinaResponse(200, <<>>)
    /\ jina_log' = [selected |-> SelectedIds(jina_in.ranked, jina_in.max_items),
                    after |-> EnhanceWithJina(jina_in.ranked,
                                              SelectedIds(jina_in.ranked, jina_in.max_items),
                                              jina_in.jina_enabled, jina_in.min_len, answers),
                    answers |-> answers]
    /\ UNCHANGED <<jina_in, progVars, blkVars, hookVars, baseVars>>

InitJina ==
    /\ \E ranked \in ListsUpTo(JinaItems, MaxJinaItems), mi \in 1..MaxJinaItems,
          enabled \in BOOLEAN, min_len \in {1, 21} :
          /\ \A i, j \in DOMAIN ranked : i # j => ranked[i] # ranked[j]
          /\ jina_in = [ranked |-> ranked, max_items |-> MaxItemsOf(mi),
                        jina_enabled |-> enabled, min_len |-> JinaMinSnippetLenOf(min_len)]
    /\ jina_log = <<>>
    /\ ProgIdle /\ BlkIdle /\ HookIdle /\ BaseIdle

NextJina == \E answers \in [1..MaxJinaItems -> JinaAnswers] : JinaCall(answers)

SpecJina == InitJina /\ [][NextJina]_vars

-----------------------------------------------------------------------------
(* Summary backfill: properties of SpecJina                                *)

JinaDone == jina_in # <<>> /\ jina_log # <<>>

\* the objects the backfill may assign to
Backfillable ==
    {i \in DOMAIN jina_in.ranked :
        /\ jina_in.jina_enabled
        /\ i <= jina_in.max_items
        /\ jina_in.ranked[i].link # <<>>
        /\ Len(jina_in.ranked[i].summary) < jina_in.min_len}

\* the reader delivered no text for object i
ReaderFailed(i) ==
    \/ jina_log.answers[i].kind = "raise"
    \/ jina_log.answers[i].status_code # 200
    \/ \A k \in DOMAIN jina_log.answers[i].text : jina_log.answers[i].text[k] = " "

RECURSIVE LinksOf(_, _)
LinksOf(ranked, ids) ==
    IF ids = <<>> THEN <<>>
    ELSE (IF Head(ids) \in Backfillable THEN <<ranked[Head(ids)].link>> ELSE <<>>)
         \o LinksOf(ranked, Tail(ids))

\* C33: the reader is asked exactly for the selected items that have a link
\* and a summary shorter than the minimum, once each and in their order; an
\* item outside that set keeps its summary, and so does an item for which
\* the reader raised, answered another status than 200 or answered blank
\* text; an item whose reader text is not blank gets that text as its
\* summary; no title, link or publication time changes and the list keeps
\* its length and order.
C33_BackfillFrame ==
    JinaDone =>
        /\ DOMAIN jina_log.after.objs = DOMAIN jina_in.ranked
        /\ jina_log.selected = [i \in 1..Len(jina_log.selected) |-> i]
        /\ Len(jina_log.selected) <= jina_in.max_items
        /\ jina_log.after.requests = LinksOf(jina_in.ranked, jina_log.selected)
        /\ \A i \in DOMAIN jina_in.ranked :
              /\ jina_log.after.objs[i].title = jina_in.ranked[i].title
              /\ jina_log.after.objs[i].link = jina_in.ranked[i].link
              /\ jina_log.after.objs[i].published = jina_in.ranked[i].published
              /\ (i \notin Backfillable \/ ReaderFailed(i)) =>
                    jina_log.after.objs[i].summary = jina_in.ranked[i].summary
              /\ (i \in Backfillable /\ ~ReaderFailed(i)) =>
                    /\ jina_log.after.objs[i].summary # <<>>
                    /\ jina_log.after.objs[i].summary
                          = _fetch_jina_reader(jina_log.answers[i])

\* two items are selected: the first has a summary of 19 characters and the
\* reader fails for it, the second has one of 20 characters, the minimum,
\* and is not asked for although the reader would answer
C33_Witness ==
    /\ JinaDone /\ jina_in.jina_enabled /\ jina_in.min_len = 20
    /\ Len(jina_log.selected) = 2
    /\ Len(jina_in.ranked[1].summary) = 19 /\ jina_log.answers[1].status_code = 503
    /\ Len(jina_in.ranked[2].summary) = 20
    /\ jina_log.after.requests = <<jina_in.ranked[1].link>>
    /\ jina_log.after.objs = jina_in.ranked

-----------------------------------------------------------------------------
(* Route health: what one fetch of a route records, and the two tables     *)
(* (further properties of SpecRoute)                                       *)

\* the step is the visit of a route template by _fetch_news_items
RouteVisited == route_idx' # route_idx

\* the log entry of the visit
VisitEntry == fetch_log'[Len(fetch_log')]

TablesUnchangedFor(r) ==
    /\ (r \in DOMAIN route_fail_counts') = (r \in DOMAIN route_fail_counts)
    /\ (r \in DOMAIN route_last_fail_ts') = (r \in DOMAIN route_last_fail_ts)
    /\ DictGet(route_fail_counts', r, 0) = DictGet(route_fail_counts, r, 0)
    /\ DictGet(route_last_fail_ts', r, 0) = DictGet(route_last_fail_ts, r, 0)

\* C34: the visit of a route that is not skipped records one outcome: a
\* success (the route's entries are gone) exactly when a response with
\* status 200 and a feed of at least one item arrived, else one failure
\* (the count grows by one and the time is stamped); a response ends the
\* tries, whatever its status; the visit of a skipped route makes no try,
\* records nothing and leaves the route's count and time as they were.
C34_OneOutcomePerFetch ==
    /\ [](\A e \in LogEntries :
            /\ e.skipped => (e.recorded = "none" /\ e.attempts = 0)
            /\ ~e.skipped =>
                  /\ e.recorded \in {"success", "failure"}
                  /\ e.recorded = "success" <=> e.truth
                  /\ e.raises < retry_attempts => e.attempts = e.raises + 1)
    /\ [][RouteVisited =>
            /\ VisitEntry.skipped => TablesUnchangedFor(VisitEntry.route)
            /\ VisitEntry.recorded = "success" =>
                  /\ VisitEntry.route \notin DOMAIN route_fail_counts'
                  /\ VisitEntry.route \notin DOMAIN route_last_fail_ts'
            /\ VisitEntry.recorded = "failure" =>
                  /\ route_fail_counts'[VisitEntry.route]
                        = DictGet(route_fail_counts, VisitEntry.route, 0) + 1
                  /\ route_last_fail_ts'[VisitEntry.route] = now']_vars

\* a response arrived at the first try and was not a feed with items: one
\* try, one failure, on a route that had none before
C34_Witness ==
    \E e \in LogEntries :
        /\ ~e.skipped /\ e.raises = 0 /\ e.attempts = 1 /\ ~e.truth
        /\ e.recorded = "failure" /\ e.cnt_before = 0
        /\ route_fail_counts[e.route] = 1

\* C35: a route has a failure count exactly when it has a failure time, a
\* stored count is at least 1, the visit of a route changes nothing for
\* another route, and a route's entry goes away only in a visit of that
\* route that recorded a success.
C35_TablesInStep ==
    /\ [](/\ DOMAIN route_fail_counts = DOMAIN route_last_fail_ts
          /\ \A r \in DOMAIN route_fail_counts : route_fail_counts[r] >= 1)
    /\ [][/\ \A r \in Routes :
                (~RouteVisited \/ r # VisitEntry.route) => TablesUnchangedFor(r)
          /\ \A r \in DOMAIN route_fail_counts :
                r \notin DOMAIN route_fail_counts' =>
                   /\ RouteVisited /\ VisitEntry.route = r
                   /\ VisitEntry.recorded = "success"]_vars

\* one route is open while the other one has just had its entry cleared by
\* a success
C35_Witness ==
    /\ \E r \in Routes : DictGet(route_fail_counts, r, 0) >= route_fail_threshold
    /\ \E e \in LogEntries :
          /\ e.recorded = "success" /\ e.cnt_before >= 1
          /\ e.route \notin DOMAIN route_fail_counts
    /\ Cardinality(DOMAIN route_fail_counts) = 1

-----------------------------------------------------------------------------
(* The blocks of the three intel services (SpecBlocks)                     *)
(* A text is the list of its lines: "\n".join(lines). An element that      *)
(* begins with "\n" in the code is the empty line followed by the rest.     *)

\* bool(text) of a str: "" is the text without lines or with one empty line
IsEmptyText(text) == text = <<>> \/ text = <<"">>

\* str.strip() of a text whose lines carry no leading or trailing blanks:
\* the empty lines at both ends go
RECURSIVE StripLines(_)
StripLines(text) ==
    IF text # <<>> /\ Head(text) = "" THEN StripLines(Tail(text))
    ELSE IF text # <<>> /\ text[Len(text)] = ""
    THEN StripLines(SubSeq(text, 1, Len(text) - 1))
    ELSE text

NoRecordLine == "- no structured record found"

FetchFailedLine == "- fetch failed: <error>"

NoNewsLine == "- no valid news items fetched"

NoDiscussionLine == "- no valid discussion text fetched"

\* asof=None
NoAsof == "none"

\* finance_service._render_section, lines 163-188
_render_section(title, rows, asof) ==
    <<"", title>>
    \o (IF asof # NoAsof THEN <<"- period: <asof>">> ELSE <<>>)
    \o (IF rows = 0 THEN <<NoRecordLine>>
        ELSE <<"- key values: <k=v; ...>", "| head |", "| --- |">>
             \o [r \in 1..rows |-> "| row |"])

\* finance_service._official_reference_links, lines 228-245
_official_reference_links(code) ==
    IF code.blank THEN <<>>
    ELSE <<"", "#### official disclosure", "- cninfo: <url>">>
         \o (IF code.first = "6" THEN <<"- SSE announcements">>
             ELSE IF code.first \in {"0", "2", "3"} THEN <<"- SZSE announcements">>
             ELSE <<>>)

FinanceTitles == <<"#### forecast", "#### express", "#### report">>

\* build_finance_context, lines 38-80, for the (rows, asof) pairs the three
\* lookups return
build_finance_lines(f) ==
    IF ~f.enabled THEN <<>>
    ELSE IF ~f.code.a_share
    THEN <<"### finance (structured)", "- only A-share codes are supported, <code> skipped">>
    ELSE StripLines(<<"### finance (structured / AkShare)">>
                    \o _render_section(FinanceTitles[1], f.found[1].rows, f.found[1].asof)
                    \o _render_section(FinanceTitles[2], f.found[2].rows, f.found[2].asof)
                    \o _render_section(FinanceTitles[3], f.found[3].rows, f.found[3].asof)
                    \o _official_reference_links(f.code))

\* build_sentiment_context, lines 46-81, for the result of _fetch_sentiment
build_sentiment_lines(s) ==
    IF ~s.enabled THEN <<>>
    ELSE IF s.result.error # NoError /\ s.result.error # <<"">>
    THEN <<"### community sentiment (xueqiu)", FetchFailedLine,
           "- note: configure XUEQIU_COOKIE and retry">>
    ELSE <<"### community sentiment (xueqiu)", "- note: no lexicon scoring",
           "- sample size: <n>">>
         \o (IF s.result.highlights # <<>>
             THEN <<"- representative views:">>
                  \o [i \in DOMAIN Take(s.result.highlights, 5) |-> "  <i>. <text>"]
             ELSE <<NoDiscussionLine>>)
         \o (IF s.kol_users # <<>>
             THEN <<"- KOL watch list: <users>">>
                  \o (IF s.result.kol_highlights # <<>>
                      THEN <<"- KOL hits:">>
                           \o [i \in DOMAIN Take(s.result.kol_highlights, 5) |->
                                 "  <i>. <item>"]
                      ELSE <<"- KOL hits: none">>)
             ELSE <<>>)

\* lines 69-76: the lines of one item
NewsItemLines(item) ==
    <<"<idx>. <title>">>
    \o (IF item.published # NoDate THEN <<"   - time: <published>">> ELSE <<>>)
    \o (IF item.link # <<>> THEN <<"   - link: <link>">> ELSE <<>>)
    \o (IF item.summary # <<>> THEN <<"   - summary: <summary>">> ELSE <<>>)

RECURSIVE NewsLines(_)
NewsLines(items) ==
    IF items = <<>> THEN <<>>
    ELSE NewsItemLines(Head(items)) \o NewsLines(Tail(items))

build_news_lines_no_placeholder(n) ==
    IF ~n.enabled \/ n.items = <<>> THEN <<>>
    ELSE <<"### latest news (RSSHub)">> \o NewsLines(Take(n.items, n.max_items))

\* build_news_context, lines 59-78, for the items _fetch_news_items returns
build_news_lines(n) ==
    IF ~n.enabled THEN <<>>
    ELSE IF n.items = <<>> THEN <<"### latest news (RSSHub)", NoNewsLine>>
    ELSE <<"### latest news (RSSHub)">> \o NewsLines(Take(n.items, n.max_items))

\* pipeline.py lines 306-328: what a source's try block sees
BlockOutcome(raises, text) ==
    IF raises THEN "raise" ELSE IF IsEmptyText(text) THEN "empty" ELSE "text"

StockCode(a_share, blank, first) == [a_share |-> a_share, blank |-> blank, first |-> first]

Found(rows, asof) == [rows |-> rows, asof |-> asof]

NotFound == Found(0, NoAsof)

\* the finance service: off, a foreign code, an A-share code with no record
\* at all, with records in two of the three datasets, and a call that raises
FinanceCases ==
    { [enabled |-> FALSE, raises |-> FALSE, code |-> StockCode(TRUE, FALSE, "6"),
       found |-> <<NotFound, NotFound, NotFound>>],
      [enabled |-> TRUE, raises |-> FALSE, code |-> StockCode(FALSE, FALSE, "A"),
       found |-> <<NotFound, NotFound, NotFound>>],
      [enabled |-> TRUE, raises |-> FALSE, code |-> StockCode(TRUE, FALSE, "6"),
       found |-> <<NotFound, NotFound, NotFound>>],
      [enabled |-> TRUE, raises |-> FALSE, code |-> StockCode(TRUE, FALSE, "0"),
       found |-> <<NotFound, Found(1, "2024-12-31"), Found(3, "2024-09-30")>>],
      [enabled |-> TRUE, raises |-> TRUE, code |-> StockCode(TRUE, FALSE, "6"),
       found |-> <<Found(1, "2024-12-31"), NotFound, NotFound>>] }

\* the sentiment service: off, raising, a failed fetch, no posts, posts
\* without and with a KOL list
SentimentCases ==
    { [enabled |-> FALSE, raises |-> FALSE, kol_users |-> <<>>,
       result |-> SentimentResult(0, <<>>, <<>>, NoError)],
      [enabled |-> TRUE, raises |-> TRUE, kol_users |-> <<>>,
       result |-> SentimentResult(0, <<>>, <<>>, NoError)],
      [enabled |-> TRUE, raises |-> FALSE, kol_users |-> <<>>,
       result |-> SentimentResult(0, <<>>, <<>>, <<"HTTP 403">>)],
      [enabled |-> TRUE, raises |-> FALSE, kol_users |-> <<>>,
       result |-> SentimentResult(0, <<>>, <<>>, NoError)],
      [enabled |-> TRUE, raises |-> FALSE, kol_users |-> <<<<"kol">>>>,
       result |-> SentimentResult(2, <<<<"up">>, <<"down">>>>, <<>>, NoError)],
      [enabled |-> TRUE, raises |-> FALSE, kol_users |-> <<<<"kol">>>>,
       result |-> SentimentResult(1, <<<<"up">>>>, <<<<"@", "kol", ": ", "up">>>>,
                                  NoError)] }

\* the news service: off, raising, no item, two items
NewsCases ==
    { [enabled |-> FALSE, raises |-> FALSE, max_items |-> 1, items |-> <<>>],
      [enabled |-> TRUE, raises |-> TRUE, max_items |-> 1, items |-> <<>>],
      [enabled |-> TRUE, raises |-> FALSE, max_items |-> 1, items |-> <<>>],
      [enabled |-> TRUE, raises |-> FALSE, max_items |-> 1,
       items |-> <<NewsItem(<<"oil">>, <<>>, NoDate, <<>>),
                   NewsItem(<<"gas">>, <<"cls.cn">>, 90, <<"gas", " ", "up">>)>>] }

BlockInputs ==
    [finance : FinanceCases, sentiment : SentimentCases, news : NewsCases,
     available : BOOLEAN, search : {"raise", "none", "dims"}]

\* what _build_intel_context is given by the three services and the search
IntelInputOf(b, texts) ==
    [finance |-> BlockOutcome(b.finance.raises, texts.finance),
     sentiment |-> BlockOutcome(b.sentiment.raises, texts.sentiment),
     news |-> BlockOutcome(b.news.raises, texts.news),
     available |-> b.available, search |-> b.search,
     responses |-> [d \in 1..Len(Dimensions) |-> "hit"],
     format |-> "text", save_raise |-> 0]

\* one _build_intel_context call with the real services behind it
BlocksCall ==
    /\ blk_log = <<>>
    /\ LET texts == [finance |-> build_finance_lines(blk_in.finance),
                     sentiment |-> build_sentiment_lines(blk_in.sentiment),
                     news |-> build_news_lines(blk_in.news)]
           r == _build_intel_context(IntelInputOf(blk_in, texts))
       IN  blk_log' = <<[texts |-> texts, blocks |-> r.blocks, ret |-> r.ret,
                        searches |-> r.searches]>>
    /\ UNCHANGED <<blk_in, progVars, jinaVars, hookVars, baseVars>>

InitBlocks ==
    /\ blk_in \in BlockInputs
    /\ blk_log = <<>>
    /\ ProgIdle /\ JinaIdle /\ HookIdle /\ BaseIdle

NextBlocks == BlocksCall

SpecBlocks == InitBlocks /\ [][NextBlocks]_vars

-----------------------------------------------------------------------------
(* Properties of SpecBlocks                                                 *)

BlocksDone == blk_log # <<>>

\* the service is enabled and its call returns
SourceAnswers(s) == blk_in[s].enabled /\ ~blk_in[s].raises

\* the service came back with no data
FoundNothing(s) ==
    CASE s = "finance" -> /\ blk_in.finance.code.a_share
                          /\ \A d \in 1..3 : blk_in.finance.found[d].rows = 0
      [] s = "sentiment" -> blk_in.sentiment.result.highlights = <<>>
      [] OTHER -> blk_in.news.items = <<>>

PlaceholderLine(s) ==
    CASE s = "finance" -> NoRecordLine
      [] s = "sentiment" -> IF blk_in.sentiment.result.error # NoError
                            THEN FetchFailedLine ELSE NoDiscussionLine
      [] OTHER -> NoNewsLine

\* C36: a service that is enabled and returns contributes a non-empty block,
\* also when it found nothing (the block then is a header and a 'no
\* structured record', 'fetch failed' or 'no valid news items' line); so with
\* one such service the web search is not called, and the web search is
\* called only when each of the three services is disabled or raises
C36_PlaceholderBlocks ==
    BlocksDone =>
        LET r == blk_log[1]
        IN  /\ \A s \in Elems(IntelSources) :
                  SourceAnswers(s) =>
                      /\ r.texts[s] # <<>> /\ r.texts[s][1] # ""
                      /\ s \in Elems(r.blocks)
                      /\ FoundNothing(s) =>
                            /\ Len(r.texts[s]) >= 2
                            /\ PlaceholderLine(s) \in Elems(r.texts[s])
            /\ (\E s \in Elems(IntelSources) : SourceAnswers(s)) =>
                  r.searches = <<>> /\ r.ret = "text" /\ "search" \notin Elems(r.blocks)
            /\ r.searches # <<>> =>
                  \A s \in Elems(IntelSources) :
                      ~blk_in[s].enabled \/ blk_in[s].raises

\* every service is enabled and finds nothing, the search is available:
\* three placeholder blocks, no search
C36_Witness ==
    /\ BlocksDone
    /\ blk_in.available /\ blk_in.search = "dims"
    /\ \A s \in Elems(IntelSources) : SourceAnswers(s) /\ FoundNothing(s)
    /\ blk_log[1].blocks = IntelSources
    /\ blk_log[1].searches = <<>>

-----------------------------------------------------------------------------
(* The aggregate report in single-stock mode and the dry run: properties   *)
(* of Spec                                                                 *)

\* run(single_stock_notify=True) of a pipeline that sends notifications
SingleStockMode == cfg.single_stock_notify /\ cfg.send_notification /\ ~cfg.dry_run

\* no symbol's report went out: where a push was tried it failed or raised,
\* or the notifier was unavailable
NoSymbolPushed == \A i \in Tasks : task[i].push # "sent"

\* C37: in single_stock_notify mode the aggregate push is skipped whatever
\* the per-symbol pushes did: the dashboard is saved ("failed" if generating
\* or saving it raised) and never pushed, also when every per-symbol push
\* failed, raised or found the notifier unavailable
C37_AggregatePushSkipped ==
    SingleStockMode =>
        /\ agg \in {"none", "saved", "failed"}
        /\ (RunReturned /\ results # <<>>) => agg \in {"saved", "failed"}
        /\ (RunReturned /\ results # <<>> /\ NoSymbolPushed) => agg # "pushed"

\* a run that ends with a result for every symbol, a per-symbol push that
\* failed, one that raised or found no channel, and the dashboard only saved
C37_Witness ==
    /\ SingleStockMode /\ RunReturned /\ NumSymbols = MaxSymbols
    /\ Len(results) = NumSymbols
    /\ task[1].notify = "failed"
    /\ task[2].notify \in {"raise", "unavailable"}
    /\ NoSymbolPushed
    /\ agg = "saved"

\* the symbols of the list with today's data stored
WithTodayData == {i \in Tasks : has_today_data(db_has_today, stock_codes[i])}

-----------------------------------------------------------------------------
(* Bot webhook: the WeCom adapter and the handler's short-window           *)
(* deduplication (SpecWebhook)                                             *)
(* Strings that are compared or joined are lists of tokens, as in the news *)
(* ranking; `or ""` and None are the empty list where a value is optional.  *)

\* handler.py line 29
_DUPLICATE_WINDOW_SECONDS == 120

\* the most handle_webhook calls the model follows
MaxHookCalls == 3

\* the clock readings at which requests arrive, in seconds
HookTimes == <<0, 60, 120, 121>>

\* hashlib.sha1("".join(sorted(params))).hexdigest(): one digest per sorted
\* list, and the sorted list is the parameters as a bag
Sha1OfSorted(params) ==
    [p \in Elems(params) |-> Cardinality({i \in DOMAIN params : params[i] = p})]

\* msg_signature absent from the query: qv() returns ""
NoSignature == Sha1OfSorted(<<>>)

\* the digest _verify_signature computes, lines 198-203
CalcSignature(token, timestamp, nonce, encrypted) ==
    Sha1OfSorted(<<token, timestamp, nonce>>
                 \o (IF encrypted # "" THEN <<encrypted>> ELSE <<>>))

\* WecomPlatform._verify_signature, lines 191-204
_verify_signature(token, signature, timestamp, nonce, encrypted) ==
    CalcSignature(token, timestamp, nonce, encrypted) = signature

\* a request body. kind: "empty" (no bytes), "json" (json.loads succeeds),
\* "xml" (well-formed XML) or "malformed". An XML body with Encrypt is the
\* secure mode's envelope; its other fields then are those of the XML that
\* Encrypt decrypts to with the configured key when Encrypt = "enc_good"
Xml(encrypt, msg_type, content, from_user, msg_id, create_time) ==
    [kind |-> "xml", encrypt |-> encrypt, msg_type |-> msg_type, content |-> content,
     from_user |-> from_user, msg_id |-> msg_id, create_time |-> create_time]

OtherBody(kind) ==
    [kind |-> kind, encrypt |-> "", msg_type |-> "", content |-> <<>>,
     from_user |-> <<>>, msg_id |-> <<>>, create_time |-> <<>>]

\* data.get("_raw_body", ""): handler.py lines 112-120 keep the body as
\* _raw_body only when it is not JSON
RawBody(body) == IF body.kind \in {"empty", "json"} THEN OtherBody("empty") ELSE body

\* WecomPlatform._extract_encrypt_from_xml, lines 206-214
_extract_encrypt_from_xml(raw_body) ==
    IF raw_body.kind # "xml" THEN "" ELSE raw_body.encrypt

\* WecomPlatform._decrypt_wecom_text, lines 227-258: None (<<>>) without a
\* key or when decrypting fails, else the plain XML
_decrypt_wecom_text(conf, raw_body) ==
    IF ~conf.aes_key \/ raw_body.encrypt # "enc_good" THEN <<>>
    ELSE <<[raw_body EXCEPT !.encrypt = ""]>>

BotMessage(platform, message_id, chat_id, content) ==
    [platform |-> platform, message_id |-> message_id, chat_id |-> chat_id,
     content |-> content]

\* WecomPlatform.parse_message, lines 120-176: None is <<>>
parse_message(raw_body) ==
    IF raw_body.kind # "xml" THEN <<>>
    ELSE IF raw_body.encrypt # "" THEN <<>>
    ELSE IF raw_body.msg_type # "text" THEN <<>>
    ELSE IF Strip(raw_body.content) = <<>> THEN <<>>
    ELSE <<BotMessage(<<"wecom">>,
                      IF raw_body.msg_id # <<>> THEN raw_body.msg_id
                      ELSE raw_body.create_time,
                      Strip(raw_body.from_user), Strip(raw_body.content))>>

WebhookResponse(kind, status_code, body) ==
    [kind |-> kind, status_code |-> status_code, body |-> body]

Success == WebhookResponse("success", 200, "")

\* what the adapter returns: (message, challenge_response), each optional
Returns(message, response) == [message |-> message, response |-> response]

\* wecom.py lines 78 and 97: the signature is checked only if a token is
\* configured and the query carries msg_signature, timestamp and nonce
ShouldVerify(conf, query) ==
    /\ conf.token # "" /\ query.msg_signature # NoSignature
    /\ query.timestamp # "" /\ query.nonce # ""

\* WecomPlatform.handle_webhook, lines 76-93: URL verification
UrlVerification(conf, query) ==
    IF /\ ShouldVerify(conf, query)
       /\ ~_verify_signature(conf.token, query.msg_signature, query.timestamp,
                             query.nonce, query.echostr)
    THEN Returns(<<>>, <<WebhookResponse("error", 403, "Invalid signature")>>)
    ELSE IF conf.aes_key
    THEN (IF query.echostr # "enc_good"
          THEN Returns(<<>>, <<WebhookResponse("error", 400, "Decrypt echostr failed")>>)
          ELSE Returns(<<>>, <<WebhookResponse("text", 200, "plain echostr")>>))
    ELSE Returns(<<>>, <<WebhookResponse("text", 200, query.echostr)>>)

\* WecomPlatform.handle_webhook, lines 95-118: a message callback
MessageCallback(conf, query, raw_body) ==
    LET encrypt_text == _extract_encrypt_from_xml(raw_body)
    IN  IF /\ ShouldVerify(conf, query)
           /\ ~_verify_signature(conf.token, query.msg_signature, query.timestamp,
                                 query.nonce, encrypt_text)
        THEN Returns(<<>>, <<WebhookResponse("error", 403, "Invalid signature")>>)
        ELSE IF encrypt_text = "" THEN Returns(parse_message(raw_body), <<>>)
        ELSE IF ~conf.aes_key
        THEN Returns(<<>>, <<WebhookResponse("error", 400, "Missing WECOM_ENCODING_AES_KEY")>>)
        ELSE IF _decrypt_wecom_text(conf, raw_body) = <<>>
        THEN Returns(<<>>, <<WebhookResponse("error", 400, "Decrypt message failed")>>)
        ELSE Returns(parse_message(_decrypt_wecom_text(conf, raw_body)[1]), <<>>)

\* WecomPlatform.handle_webhook, lines 55-118
platform_handle_webhook(conf, query, raw_body) ==
    IF query.echostr # "" THEN UrlVerification(conf, query)
    ELSE MessageCallback(conf, query, raw_body)

\* handler.py line 44
Fingerprint(message) ==
    message.platform \o <<":">> \o message.message_id \o <<":">> \o message.chat_id
    \o <<":">> \o Strip(message.content)

\* handler.py line 36
ExpiredKeys(cache, t) ==
    {k \in DOMAIN cache : t - cache[k] > _DUPLICATE_WINDOW_SECONDS}

\* lines 37-38
Purge(cache, t) == [k \in (DOMAIN cache) \ ExpiredKeys(cache, t) |-> cache[k]]

\* _is_duplicate_message(message), lines 32-50, at time.time() = t: what it
\* returns and the cache it leaves
_is_duplicate_message(cache, t, message) ==
    LET kept == Purge(cache, t)
        fingerprint == Fingerprint(message)
    IN  IF fingerprint \in DOMAIN kept
        THEN [duplicate |-> TRUE, cache |-> kept]
        ELSE [duplicate |-> FALSE, cache |-> DictSet(kept, fingerprint, t)]

Handled(response, message, dispatched, replied, cache) ==
    [response |-> response, message |-> message, dispatched |-> dispatched,
     replied |-> replied, cache |-> cache]

\* handler.handle_webhook, lines 76-158, for a request at time t; has_text:
\* the dispatcher's response carries a text, which format_response sends as
\* an application message (wecom.py lines 178-189)
handle_webhook(conf, req, cache, t, has_text) ==
    IF ~conf.bot_enabled THEN Handled(Success, <<>>, FALSE, FALSE, cache)
    ELSE IF req.platform_name # "wecom"
    THEN Handled(WebhookResponse("error", 400, "Unknown platform"), <<>>, FALSE, FALSE,
                 cache)
    ELSE
      LET r == platform_handle_webhook(conf, req.query, RawBody(req.body))
      IN  IF r.response # <<>> THEN Handled(r.response[1], <<>>, FALSE, FALSE, cache)
          ELSE IF r.message = <<>> THEN Handled(Success, <<>>, FALSE, FALSE, cache)
          ELSE
            LET d == _is_duplicate_message(cache, t, r.message[1])
            IN  IF d.duplicate THEN Handled(Success, r.message, FALSE, FALSE, d.cache)
                ELSE IF has_text
                THEN Handled(WebhookResponse("text", 200, "success"), r.message, TRUE,
                             TRUE, d.cache)
                ELSE Handled(Success, r.message, TRUE, FALSE, d.cache)

Query(msg_signature, timestamp, nonce, echostr) ==
    [msg_signature |-> msg_signature, timestamp |-> timestamp, nonce |-> nonce,
     echostr |-> echostr]

Request(platform_name, query, body) ==
    [platform_name |-> platform_name, query |-> query, body |-> body]

\* a callback signed by someone who holds `token`
Signed(token, echostr, body) ==
    Request("wecom",
            Query(CalcSignature(token, "1700000000", "n1",
                                IF echostr # "" THEN echostr
                                ELSE _extract_encrypt_from_xml(RawBody(body))),
                  "1700000000", "n1", echostr),
            body)

\* a callback without msg_signature, timestamp and nonce
Unsigned(body) == Request("wecom", Query(NoSignature, "", "", ""), body)

WecomToken == "tok"

\* text messages: two whose ids and senders differ but join to one string, two
\* that differ only in blanks around the content, one with a blank content
\* (parse_message returns None for it)
MsgColonInSender == Xml("", "text", <<"y">>, <<"u", ":", "x">>, <<"1">>, <<"1700000000">>)

MsgColonInId == Xml("", "text", <<"y">>, <<"x">>, <<"1", ":", "u">>, <<"1700000000">>)

MsgHi == Xml("", "text", <<"hi">>, <<"u">>, <<"2">>, <<"1700000000">>)

MsgHiPadded == Xml("", "text", <<" ", "hi", " ">>, <<"u">>, <<"2">>, <<"1700000000">>)

MsgBlank == Xml("", "text", <<" ">>, <<"u">>, <<"3">>, <<"1700000000">>)

HookRequests ==
    { Signed(WecomToken, "", MsgColonInSender),
      Signed(WecomToken, "", MsgColonInId),
      Signed(WecomToken, "", MsgHi),
      Signed(WecomToken, "", MsgHiPadded),
      Signed(WecomToken, "", MsgBlank),
      Signed(WecomToken, "", [MsgHi EXCEPT !.encrypt = "enc_good"]),
      Signed(WecomToken, "", OtherBody("json")),
      Signed("wrong", "", MsgHi),
      Unsigned(MsgHi),
      Unsigned(OtherBody("empty")),
      Signed(WecomToken, "enc_good", OtherBody("empty")),
      [Unsigned(MsgHi) EXCEPT !.platform_name = "unknown"] }

\* the bot switched on with a token, with a token and an AES key, without a
\* token, and switched off
HookConfigs ==
    { [bot_enabled |-> TRUE, token |-> WecomToken, aes_key |-> FALSE],
      [bot_enabled |-> TRUE, token |-> WecomToken, aes_key |-> TRUE],
      [bot_enabled |-> TRUE, token |-> "", aes_key |-> FALSE],
      [bot_enabled |-> FALSE, token |-> WecomToken, aes_key |-> FALSE] }

\* time.time() at the clock reading the model is at
TimeNow == HookTimes[hook_now]

\* one request handled, from the first line of handle_webhook to its return
HandleWebhook(req, has_text) ==
    /\ Len(hook_log) < MaxHookCalls
    /\ LET h == handle_webhook(hook_in, req, _recent_message_cache, TimeNow, has_text)
       IN  /\ (has_text => h.dispatched)
           /\ _recent_message_cache' = h.cache
           /\ hook_log' = Append(hook_log,
                                 [t |-> TimeNow, req |-> req, response |-> h.response,
                                  message |-> h.message, dispatched |-> h.dispatched,
                                  replied |-> h.replied, cache |-> h.cache])
    /\ UNCHANGED <<hook_in, hook_now, progVars, jinaVars, blkVars, baseVars>>

\* the clock moves on to the next reading
HookTick ==
    /\ hook_now < Len(HookTimes)
    /\ hook_now' = hook_now + 1
    /\ UNCHANGED <<hook_in, _recent_message_cache, hook_log, progVars, jinaVars,
                   blkVars, baseVars>>

InitWebhook ==
    /\ hook_in \in HookConfigs
    /\ hook_now = 1
    /\ _recent_message_cache = EmptyDict
    /\ hook_log = <<>>
    /\ ProgIdle /\ JinaIdle /\ BlkIdle /\ BaseIdle

NextWebhook ==
    \/ \E req \in HookRequests, has_text \in BOOLEAN : HandleWebhook(req, has_text)
    \/ HookTick

SpecWebhook == InitWebhook /\ [][NextWebhook]_vars

-----------------------------------------------------------------------------
(* Properties of SpecWebhook                                               *)

\* the calls that got a message from the adapter
WithMessage == {k \in DOMAIN hook_log : hook_log[k].message # <<>>}

MessageOf(k) == hook_log[k].message[1]

\* the four values the fingerprint is made of
FingerprintFields(m) == <<m.platform, m.message_id, m.chat_id, Strip(m.content)>>

CacheBefore(k) == IF k = 1 THEN EmptyDict ELSE hook_log[k - 1].cache

\* an earlier call dispatched a message that is `same` as the one of call k,
\* no more than the window before call k
DispatchedWithinWindow(k, same(_, _)) ==
    \E j \in WithMessage :
        /\ j < k /\ hook_log[j].dispatched
        /\ same(MessageOf(j), MessageOf(k))
        /\ hook_log[k].t - hook_log[j].t <= _DUPLICATE_WINDOW_SECONDS

SameFields(m1, m2) == FingerprintFields(m1) = FingerprintFields(m2)

SameCacheKey(m1, m2) == Fingerprint(m1) = Fingerprint(m2)

\* the window rule for a notion of "the same message"
WindowRule(same(_, _)) ==
    /\ \A k \in WithMessage :
          /\ hook_log[k].dispatched <=> ~DispatchedWithinWindow(k, same)
          /\ ~hook_log[k].dispatched => hook_log[k].response = Success
    /\ \A k \in DOMAIN hook_log :
          k \notin WithMessage =>
              /\ ~hook_log[k].dispatched
              /\ DOMAIN hook_log[k].cache \subseteq DOMAIN CacheBefore(k)

\* C39: a message is dispatched unless a message with the same fingerprint
\* (platform, message id, chat id, trimmed content) was dispatched no more
\* than 120 seconds before it, and then it is only acknowledged with success;
\* the window runs from the dispatched message, not from a later duplicate;
\* a call that yields no message (a challenge, an empty message) adds nothing
\* to the cache
C39_DedupWindow == WindowRule(SameFields)

\* the same rule with "the same message" read as "the same joined string"
DedupWindowByCacheKey == WindowRule(SameCacheKey)

\* dispatched at 0, swallowed at 60 and at 120, dispatched again at 121
DedupWindowSeen ==
    /\ Len(hook_log) = 3
    /\ \A k \in 1..3 : k \in WithMessage /\ SameFields(MessageOf(k), MessageOf(1))
    /\ hook_log[1].t = 0 /\ hook_log[1].dispatched
    /\ hook_log[2].t = 60 /\ ~hook_log[2].dispatched
    /\ hook_log[3].t = 121 /\ hook_log[3].dispatched

DuplicateAtWindowEnd ==
    /\ Len(hook_log) = 2
    /\ hook_log[1].t = 0 /\ hook_log[1].dispatched
    /\ hook_log[2].t = 120 /\ 2 \in WithMessage /\ ~hook_log[2].dispatched

\* the signature a holder of the token computes for the callback
ExpectedSignature(req) ==
    CalcSignature(hook_in.token, req.query.timestamp, req.query.nonce,
                  _extract_encrypt_from_xml(RawBody(req.body)))

\* POST callbacks that reached the adapter of a bot with a token configured
TokenCallbacks ==
    {k \in DOMAIN hook_log :
        /\ hook_in.bot_enabled /\ hook_in.token # ""
        /\ hook_log[k].req.platform_name = "wecom"
        /\ hook_log[k].req.query.echostr = ""}

\* C40: with a token configured, a POST callback yields a message (and a
\* dispatched command) only if its signature is the one computed from the
\* token; a callback whose signature is not gets a 403 response and yields
\* no message
C40_SignatureRequired ==
    \A k \in TokenCallbacks :
        LET verified == hook_log[k].req.query.msg_signature
                            = ExpectedSignature(hook_log[k].req)
        IN  /\ (hook_log[k].message # <<>> \/ hook_log[k].dispatched) => verified
            /\ ~verified =>
                  /\ hook_log[k].response.status_code = 403
                  /\ hook_log[k].message = <<>>

\* the part of C40 that the code does: a callback that carries a signature,
\* timestamp and nonce yields a message only if the signature matches, and
\* gets 403 if it does not
SignatureCheckedWhenPresent ==
    \A k \in TokenCallbacks :
        LET q == hook_log[k].req.query
            verified == q.msg_signature = ExpectedSignature(hook_log[k].req)
        IN  (q.msg_signature # NoSignature /\ q.timestamp # "" /\ q.nonce # "") =>
                /\ hook_log[k].message # <<>> => verified
                /\ ~verified =>
                      /\ hook_log[k].response.status_code = 403
                      /\ hook_log[k].message = <<>> /\ ~hook_log[k].dispatched

WrongSignatureRejected ==
    \E k \in TokenCallbacks :
        /\ hook_log[k].req.query.msg_signature # NoSignature
        /\ hook_log[k].req.query.msg_signature # ExpectedSignature(hook_log[k].req)
        /\ hook_log[k].response.status_code = 403

====
